---- MODULE Spec2Model ----
(***************************************************************************)
(* Model of the real-time chat layer of Niya_backend:                      *)
(*   src/src/chat/websocket.service.ts  (WebSocketService and the          *)
(*                                       hard-fail ChatService)            *)
(*   src/src/chat/chat.gateway.ts       (ChatGateway)                      *)
(***************************************************************************)
EXTENDS Integers, Sequences, FiniteSets, TLC

VARIABLES
    now,            \* Date.now(), in milliseconds
    rateLimiter,    \* WebSocketService.rateLimiter: key -> [count, resetTime]
    rlLast,         \* history: the last checkRateLimit call and its result
    rlWindow,       \* history: per key, the fixed window the last call fell in
    rlRecent,       \* history: per key, accepted calls of the last 60 seconds
    connections,    \* WebSocketService.connections: socket id -> ConnectionInfo
    chats,          \* store: chat id -> [userId, messageCount, lastMessage]
    messages,       \* store: the persisted messages, in creation order
    flows,          \* per send: position and locals of handleMessage/sendMessage
    emitted,        \* per send: the events handleMessage emitted to its client
    segLog,         \* per socket: the assistant messages emitted, in order
    timers500,      \* the pending 500 ms timers, in the order they were set
    timerCount,     \* the number of 500 ms timers set so far
    transport,      \* per socket: "new", "open" (client.connected) or "closed"
    conn,           \* per socket: position and locals of handleConnection
    chatRooms,      \* WebSocketService.chatRooms: chat id -> set of socket ids
    handlers,       \* per socket: the typing/read_receipt/chat_update in flight
    lastEmit        \* the events the last connection or room step emitted

rlHistory == <<rlLast, rlWindow, rlRecent>>
timerVars == <<timers500, timerCount>>
roomVars == <<conn, chatRooms, handlers, lastEmit>>
flowVars == <<connections, chats, messages, flows, emitted, segLog, timerVars,
              transport, roomVars>>
vars == <<now, rateLimiter, rlLast, rlWindow, rlRecent,
          connections, chats, messages, flows, emitted, segLog,
          timers500, timerCount, transport, conn, chatRooms, handlers, lastEmit>>

(***************************************************************************)
(* Bounds of the model                                                     *)
(***************************************************************************)
MaxNow == 90001        \* the clock is not advanced past this time
MaxCount == 101         \* calls stop once a window's count reaches this
MaxFlows == 2           \* message events handled in one run
MaxSegments == 3        \* longest reply list the upstream service returns
MaxInFlight == 1        \* typing/read_receipt/chat_update events in flight at once
MaxRequests == 1        \* REST sends handled in one run
MaxStored == 22         \* longest conversation the history is built from
MaxPolled == 4          \* most rows in a store that is polled
MaxStamp == 3           \* latest timestamp of a polled row

(***************************************************************************)
(* Program constants                                                       *)
(***************************************************************************)
RATE_WINDOW_MS == 60000
RATE_LIMIT_MAX == 100

\* clock steps: half a window, and the first instant at which a window
\* opened at the previous instant has expired
Delays == {30000, 60001}

NoCall == [key |-> <<>>, result |-> FALSE, fresh |-> FALSE, index |-> 0]

(***************************************************************************)
(* WebSocketService.checkRateLimit                                         *)
(***************************************************************************)
\* const key = `${userId}:${messageType}`
rateKey(userId, messageType) == <<userId, messageType>>

\* this.rateLimiter.get(key) || { count: 0, resetTime: now + 60000 }
rateLimitEntry(rl, key, t) ==
    IF key \in DOMAIN rl THEN rl[key]
    ELSE [count |-> 0, resetTime |-> t + RATE_WINDOW_MS]

\* if (now > limit.resetTime)
rateLimitExpired(limit, t) == t > limit.resetTime

\* mutant: the window is moved on but the count is kept
rateLimitResetKeepsCount(limit, t) ==
    IF rateLimitExpired(limit, t)
    THEN [limit EXCEPT !.resetTime = t + RATE_WINDOW_MS]
    ELSE limit

\* if (now > limit.resetTime) { limit.count = 0; limit.resetTime = now + 60000 }
rateLimitReset(limit, t) ==
    IF rateLimitExpired(limit, t)
    THEN [count |-> 0, resetTime |-> t + RATE_WINDOW_MS]
    ELSE limit

\* limit.count++
rateLimitCounted(rl, key, t) ==
    LET limit == rateLimitReset(rateLimitEntry(rl, key, t), t)
    IN  [limit EXCEPT !.count = @ + 1]

\* this.rateLimiter.set(key, limit)
rateLimiterAfter(rl, key, t) ==
    [k \in DOMAIN rl \cup {key} |->
        IF k = key THEN rateLimitCounted(rl, key, t) ELSE rl[k]]

\* mutant: the limit is reached one call early
rateLimitAllowedOffByOne(limit) == limit.count < RATE_LIMIT_MAX

\* mutant: the count is compared before it is incremented
rateLimitAllowedPostIncrement(limit) == limit.count - 1 <= RATE_LIMIT_MAX

\* return limit.count <= 100
rateLimitAllowed(limit) == limit.count <= RATE_LIMIT_MAX

\* checkRateLimit(userId, messageType): the boolean it returns
checkRateLimit(rl, userId, messageType, t) ==
    rateLimitAllowed(rateLimitCounted(rl, rateKey(userId, messageType), t))

(***************************************************************************)
(* History of the rate limiter, kept for the properties                    *)
(***************************************************************************)
\* the fixed window a call at time t falls in: a new one on first use or
\* when more than 60 seconds have passed since the window was opened
WindowAfter(w, key, t, ok) ==
    LET fresh == key \notin DOMAIN w \/ t > w[key].start + RATE_WINDOW_MS
        old == IF fresh
               THEN [start |-> t, calls |-> 0, accepted |-> 0,
                     serial |-> IF key \in DOMAIN w THEN w[key].serial + 1 ELSE 1,
                     prevRejected |-> IF key \in DOMAIN w
                                      THEN w[key].calls > w[key].accepted
                                      ELSE FALSE]
               ELSE w[key]
        new == [old EXCEPT !.calls = @ + 1,
                           !.accepted = @ + (IF ok THEN 1 ELSE 0)]
    IN  [k \in DOMAIN w \cup {key} |-> IF k = key THEN new ELSE w[k]]

\* accepted calls per instant, for the instants of the last 60 seconds
RecentAt(r, key, t) ==
    IF key \in DOMAIN r /\ t \in DOMAIN r[key] THEN r[key][t] ELSE 0

RecentAfter(r, key, t, ok) ==
    LET old == IF key \in DOMAIN r THEN r[key] ELSE <<>>
        times == DOMAIN old \cup {t}
        new == [s \in times |->
                   (IF s \in DOMAIN old THEN old[s] ELSE 0)
                   + (IF s = t /\ ok THEN 1 ELSE 0)]
    IN  [k \in DOMAIN r \cup {key} |-> IF k = key THEN new ELSE r[k]]

\* drop the instants that are 60 seconds old or older at time t
RecentPruned(r, t) ==
    [k \in DOMAIN r |->
        [s \in {x \in DOMAIN r[k] : x > t - RATE_WINDOW_MS} |-> r[k][s]]]

RECURSIVE SumOver(_, _)
SumOver(f, S) ==
    IF S = {} THEN 0
    ELSE LET x == CHOOSE y \in S : TRUE IN f[x] + SumOver(f, S \ {x})

\* accepted calls of key in the last 60 seconds
RollingAccepted(key) ==
    IF key \in DOMAIN rlRecent
    THEN SumOver(rlRecent[key], DOMAIN rlRecent[key])
    ELSE 0

(***************************************************************************)
(* The store, the sockets and the inputs of a message event                *)
(***************************************************************************)
Sockets == {"s1", "s2"}
\* the user a socket's token resolves to
SocketUser == [s \in Sockets |-> IF s = "s1" THEN 1 ELSE 2]

ChatIds == {"chatA"}
\* the chats of the store: chatA belongs to user 1, so the socket of user 2
\* has no access to it
ChatsInit ==
    [c \in ChatIds |-> [userId |-> 1, messageCount |-> 0, lastMessage |-> ""]]

\* payload.data of a message event
ChatIdInputs == ChatIds \cup {""}
ContentInputs == {"Hello", ""}
AgentInputs == {"therapist", "bogus", ""}

Flows == 1 .. MaxFlows

\* JavaScript truthiness of a string
Truthy(s) == s # ""

\* const validAgentIds / agentToPersonaMap
agentToPersonaMap ==
    [a \in {"therapist", "dietician", "career", "priya"} |->
        CASE a = "therapist" -> "THERAPIST"
          [] a = "dietician" -> "DIETICIAN"
          [] a = "career" -> "CAREER"
          [] OTHER -> "PRIYA"]

SegmentTexts == <<"r1", "r2", "r3", "r4", "r5">>

\* the reply lists the upstream service may return
ReplyLists == {SubSeq(SegmentTexts, 1, k) : k \in 0 .. MaxSegments}

\* what one upstream attempt ends in: fetch throws (network error, timeout),
\* a non-2xx status, or a JSON body
UpstreamOutcomes ==
    {[kind |-> "throw", success |-> FALSE, messages |-> <<>>, response |-> ""],
     [kind |-> "http", success |-> FALSE, messages |-> <<>>, response |-> ""]}
    \cup
    {[kind |-> "data", success |-> ok, messages |-> ms, response |-> r] :
        ok \in BOOLEAN, ms \in ReplyLists, r \in {"", "r1"}}

\* the counter of a user who has not sent yet, or has used up a window
RateLimiterInits ==
    {<<>>,
     [k \in {rateKey(1, "message")} |->
         [count |-> RATE_LIMIT_MAX, resetTime |-> RATE_WINDOW_MS]]}

\* client.handshake.query.token: what jwtService.decode makes of it (decodes,
\* sub) and whether it is a signed, unexpired token of this service (valid)
NoToken == [present |-> FALSE, decodes |-> FALSE, sub |-> 0, valid |-> FALSE]

(***************************************************************************)
(* Events emitted to a client                                              *)
(***************************************************************************)
NoId == <<>>

BaseEvent ==
    [type |-> "", role |-> "", chatId |-> "", agentId |-> "", id |-> NoId,
     content |-> "", messageId |-> NoId, confirmed |-> FALSE, hasConfirmed |-> FALSE,
     isTyping |-> FALSE, isMultiMessage |-> FALSE, isFirst |-> FALSE,
     isAdditional |-> FALSE, messageIndex |-> 0, totalMessages |-> 0,
     metaTotalMessages |-> 0, metaAdditional |-> <<>>, code |-> 0]

\* sendError(client, message, code = 400)
sendError(message, code) ==
    [BaseEvent EXCEPT !.type = "error", !.content = message, !.code = code]

\* client.emit('typing', {chatId, agentId, isTyping})
typingEvent(chatId, agentId, isTyping) ==
    [BaseEvent EXCEPT !.type = "typing", !.chatId = chatId, !.agentId = agentId,
                      !.isTyping = isTyping]

\* the immediate echo of the user message, with a temporary id
optimisticEcho(fl, t) ==
    [BaseEvent EXCEPT !.type = "message", !.role = "user", !.chatId = fl.chatId,
                      !.agentId = fl.agentId, !.id = <<"temp", t>>,
                      !.content = fl.content, !.messageId = <<fl.messageId>>,
                      !.confirmed = FALSE, !.hasConfirmed = TRUE]

\* the echo of the stored user message
confirmedEcho(fl, userMessage) ==
    [BaseEvent EXCEPT !.type = "message", !.role = userMessage.role,
                      !.chatId = fl.chatId, !.agentId = userMessage.agentId,
                      !.id = userMessage.id, !.content = userMessage.content,
                      !.messageId = <<fl.messageId>>, !.confirmed = TRUE,
                      !.hasConfirmed = TRUE,
                      !.metaTotalMessages = userMessage.totalMessages]

\* the first assistant message: isFirst, no totalMessages field of its own
primaryEvent(fl) ==
    [BaseEvent EXCEPT !.type = "message", !.role = fl.ai.role,
                      !.chatId = fl.chatId, !.agentId = fl.ai.agentId,
                      !.id = fl.ai.id, !.content = fl.ai.content,
                      !.messageId = <<fl.messageId, "ai">>,
                      !.isMultiMessage = fl.ai.isMultiMessage, !.isFirst = TRUE,
                      !.metaTotalMessages = fl.ai.totalMessages,
                      !.metaAdditional = fl.ai.metaAdditional]

\* additional message i (0-based) of a multi-message reply
additionalEvent(fl, i) ==
    [BaseEvent EXCEPT !.type = "message", !.role = fl.ai.role,
                      !.chatId = fl.chatId, !.agentId = fl.ai.agentId,
                      !.id = fl.ai.id \o <<i + 1>>,
                      !.content = fl.ai.additionalMessages[i + 1],
                      !.messageId = <<fl.messageId, "ai", i + 1>>,
                      !.isMultiMessage = TRUE, !.isAdditional = TRUE,
                      !.messageIndex = i + 2,
                      !.totalMessages = Len(fl.ai.additionalMessages) + 1,
                      !.metaTotalMessages = fl.ai.totalMessages,
                      !.metaAdditional = fl.ai.metaAdditional]

(***************************************************************************)
(* Per-send state                                                          *)
(***************************************************************************)
NoAi ==
    [id |-> NoId, agentId |-> "", content |-> "", role |-> "",
     totalMessages |-> 0, metaAdditional |-> <<>>,
     isMultiMessage |-> FALSE, additionalMessages |-> <<>>]

\* (allowed: what this send's call of checkRateLimit returned; FALSE while
\* no call was made)
IdleFlow ==
    [pc |-> "idle", sock |-> "", userId |-> 0, chatId |-> "", content |-> "",
     agentId |-> "", messageId |-> 0, chatCount |-> 0, historyLen |-> 0,
     attempt |-> 0, failure |-> "", upstreamSegments |-> <<>>,
     primary |-> "", additional |-> <<>>, ai |-> NoAi, i |-> 0, waitFor |-> 0,
     allowed |-> FALSE]

\* handleConnection not yet called for a socket
\* (valid: the token presented is a signed, unexpired token of the service;
\* errors and refusal: the error events handleConnection emitted and the
\* message of the last; gone: handleDisconnect has run for the socket;
\* hadJoined: the rooms the connection was in when it was removed)
IdleConn ==
    [pc |-> "none", userId |-> 0, valid |-> FALSE, errors |-> 0,
     refusal |-> "", gone |-> FALSE, hadJoined |-> {}]

\* no typing, read_receipt or chat_update event in flight for a socket
IdleHandler ==
    [pc |-> "idle", kind |-> "", action |-> "", chatId |-> "",
     messageIds |-> {}, userId |-> 0]

(***************************************************************************)
(* Actions of the rate-limiter specification                               *)
(***************************************************************************)
\* one call of checkRateLimit(userId, 'message') at the current time
RateLimitCall(userId) ==
    LET key == rateKey(userId, "message")
        ok == checkRateLimit(rateLimiter, userId, "message", now)
        w == WindowAfter(rlWindow, key, now, ok)
    IN  /\ IF key \in DOMAIN rlWindow /\ now <= rlWindow[key].start + RATE_WINDOW_MS
           THEN rlWindow[key].calls < MaxCount
           ELSE TRUE
        /\ rateLimiter' = rateLimiterAfter(rateLimiter, key, now)
        /\ rlWindow' = w
        /\ rlRecent' = RecentAfter(rlRecent, key, now, ok)
        /\ rlLast' = [key |-> key, result |-> ok,
                      fresh |-> w[key].calls = 1, index |-> w[key].calls]
        /\ UNCHANGED now
        /\ UNCHANGED flowVars

\* time passes
AdvanceTime(d) ==
    /\ now + d <= MaxNow
    /\ now' = now + d
    /\ rlRecent' = RecentPruned(rlRecent, now + d)
    /\ UNCHANGED <<rateLimiter, rlLast, rlWindow>>
    /\ UNCHANGED flowVars

RateInit ==
    /\ now = 0
    /\ rateLimiter = <<>>
    /\ rlLast = NoCall
    /\ rlWindow = <<>>
    /\ rlRecent = <<>>
    /\ connections = <<>>
    /\ chats = ChatsInit
    /\ messages = <<>>
    /\ flows = [f \in Flows |-> IdleFlow]
    /\ emitted = [f \in Flows |-> <<>>]
    /\ segLog = [s \in Sockets |-> <<>>]
    /\ timers500 = <<>>
    /\ timerCount = 0
    /\ transport = [s \in Sockets |-> "new"]
    /\ conn = [s \in Sockets |-> IdleConn]
    /\ chatRooms = <<>>
    /\ handlers = [s \in Sockets |-> IdleHandler]
    /\ lastEmit = <<>>

RateNext ==
    \/ \E u \in {1} : RateLimitCall(u)
    \/ \E d \in Delays : AdvanceTime(d)

RateSpec == RateInit /\ [][RateNext]_vars

(***************************************************************************)
(* Properties of the rate limiter (specification RateSpec)                 *)
(***************************************************************************)
\* accepted calls of key in the last 60 seconds that fall in the fixed
\* window the counter is in now
RollingAcceptedInWindow(key) ==
    IF key \in DOMAIN rlRecent /\ key \in DOMAIN rlWindow
    THEN SumOver(rlRecent[key],
                 {s \in DOMAIN rlRecent[key] : s >= rlWindow[key].start})
    ELSE 0

\* C8 (as stated): for one (user, category) key, no rolling 60-second
\* interval holds more than 100 accepted events: the 101st event of any
\* rolling 60-second interval is rejected, wherever the interval lies
\* relative to the counter's reset time.
C8_RollingWindowLimit ==
    \A key \in DOMAIN rlRecent : RollingAccepted(key) <= RATE_LIMIT_MAX

\* C8 (amended): the 101st event of a rolling 60-second interval is rejected
\* when the interval lies within one fixed window of the counter; an
\* interval that spans a window reset can hold the accepted events of both
\* windows, at most 200.
C8_FixedWindowRollingLimit ==
    \A key \in DOMAIN rlRecent :
        /\ RollingAcceptedInWindow(key) <= RATE_LIMIT_MAX
        /\ RollingAccepted(key) <= 2 * RATE_LIMIT_MAX

\* C8 witness: a 101st call of a fixed window was rejected while the last
\* 60 seconds hold more than 100 accepted events
C8_Witness ==
    /\ rlLast.key # <<>>
    /\ ~rlLast.result
    /\ RollingAcceptedInWindow(rlLast.key) = RATE_LIMIT_MAX
    /\ RollingAccepted(rlLast.key) > RATE_LIMIT_MAX

\* C9: in each fixed window of a key (from first use or reset until 60
\* seconds later) checkRateLimit returns true for exactly the first 100
\* calls, so for at most 100 calls.
C9_FixedWindowFirstHundred ==
    /\ rlLast.key # <<>> =>
           (rlLast.result <=> rlLast.index <= RATE_LIMIT_MAX)
    /\ \A key \in DOMAIN rlWindow : rlWindow[key].accepted <= RATE_LIMIT_MAX

\* C9 witness: the 101st call of a key's first window has been rejected
C9_Witness ==
    /\ rlLast.key # <<>>
    /\ rlLast.index = RATE_LIMIT_MAX + 1
    /\ ~rlLast.result
    /\ rlWindow[rlLast.key].accepted = RATE_LIMIT_MAX

\* C10: the first call made for a key after its window has expired is
\* accepted, whatever the previous window saw, and no stored count is
\* ever negative.
C10_FirstAfterExpiryAccepted ==
    /\ (rlLast.key # <<>> /\ rlLast.fresh) => rlLast.result
    /\ \A key \in DOMAIN rateLimiter : rateLimiter[key].count >= 0

\* C10 witness: a call was accepted as the first of a new window after a
\* window in which calls had been rejected
C10_Witness ==
    /\ rlLast.key # <<>>
    /\ rlLast.fresh
    /\ rlLast.result
    /\ rlWindow[rlLast.key].serial > 1
    /\ rlWindow[rlLast.key].prevRejected

(***************************************************************************)
(* ChatService (websocket.service.ts, the variant without fallback)        *)
(***************************************************************************)
HISTORY_TAKE == 20
maxRetries == 2

\* prisma.chat.findFirst({ where: { id: chatId, userId } }) finds a chat
chatFound(cs, chatId, userId) ==
    chatId \in DOMAIN cs /\ cs[chatId].userId = userId

\* prisma.message.create: the row gets the next id and is appended
createMessage(ms, data) ==
    Append(ms, [data EXCEPT !.id = <<"msg", Len(ms) + 1>>])

\* prisma.chat.update: messageCount increment, lastMessage
updateChat(cs, chatId, lastMessage) ==
    [cs EXCEPT ![chatId].messageCount = @ + 1, ![chatId].lastMessage = lastMessage]

\* data of the user message created by sendMessage
userMessageData(fl, send) ==
    [id |-> NoId, chatId |-> fl.chatId, userId |-> fl.userId,
     agentId |-> fl.agentId, content |-> fl.content, role |-> "user",
     messageIndex |-> fl.chatCount + 1, totalMessages |-> fl.chatCount + 1,
     read |-> FALSE, isMultiMessage |-> FALSE, additionalMessages |-> <<>>,
     send |-> send]

\* data of the primary assistant message created by generateAIResponse
assistantMessageData(fl, send) ==
    [id |-> NoId, chatId |-> fl.chatId, userId |-> fl.userId,
     agentId |-> fl.agentId, content |-> fl.primary, role |-> "assistant",
     messageIndex |-> fl.historyLen + 2, totalMessages |-> fl.historyLen + 2,
     read |-> FALSE, isMultiMessage |-> Len(fl.additional) > 0,
     additionalMessages |-> fl.additional, send |-> send]

\* prisma.message.findMany({ where: { chatId }, orderBy asc, take: 20 })
conversationHistory(ms, chatId) ==
    LET ofChat == SelectSeq(ms, LAMBDA m : m.chatId = chatId)
    IN  SubSeq(ofChat, 1, IF Len(ofChat) < HISTORY_TAKE THEN Len(ofChat)
                          ELSE HISTORY_TAKE)

\* generateMockAIResponse: whether a JSON body is a reply
\* (data.success and a non-empty messages list or a non-empty response)
upstreamIsReply(out) ==
    /\ out.kind = "data"
    /\ out.success
    /\ (Len(out.messages) > 0 \/ Truthy(out.response))

\* the reply segments of a response: its messages list, or its response
upstreamSegments(out) ==
    IF Len(out.messages) > 0 THEN out.messages ELSE <<out.response>>

\* generateAIResponse: primaryResponse
bridgePrimary(out) ==
    IF Len(out.messages) > 0
    THEN (IF Truthy(out.messages[1]) THEN out.messages[1] ELSE "Hello!")
    ELSE out.response

\* mutant: the additional messages are not sliced off the list
bridgeAdditionalUnsliced(out) ==
    IF Len(out.messages) > 0 THEN out.messages ELSE <<>>

\* generateAIResponse: additionalMessages = messages.slice(1)
bridgeAdditional(out) ==
    IF Len(out.messages) > 0 THEN Tail(out.messages) ELSE <<>>

\* the SendMessageResponse generateAIResponse returns
finalResponse(saved) ==
    [id |-> saved.id, agentId |-> saved.agentId, content |-> saved.content,
     role |-> saved.role, totalMessages |-> saved.totalMessages,
     metaAdditional |-> saved.additionalMessages,
     isMultiMessage |-> saved.isMultiMessage,
     additionalMessages |-> saved.additionalMessages]

\* prisma.message.findFirst({ where: { chatId, userId, content, role: 'user' },
\*                            orderBy: { timestamp: 'desc' } })
userMessageMatches(ms, fl) ==
    {k \in 1 .. Len(ms) :
        /\ ms[k].chatId = fl.chatId
        /\ ms[k].userId = fl.userId
        /\ ms[k].content = fl.content
        /\ ms[k].role = "user"}

Max(S) == CHOOSE x \in S : \A y \in S : y <= x

(***************************************************************************)
(* WebSocketService.handleMessage                                          *)
(***************************************************************************)
\* mutant: the catch block reports the error and leaves the indicator on
catchEventsNoTypingStop(chatId, agentId) ==
    <<sendError("Failed to process message", 400)>>

\* mutant: the catch block reports the error twice
catchEventsTwoErrors(chatId, agentId) ==
    <<sendError("Failed to process message", 400),
      sendError("Failed to process message", 400)>>
    \o (IF Truthy(chatId) /\ Truthy(agentId)
        THEN <<typingEvent(chatId, agentId, FALSE)>> ELSE <<>>)

\* the catch block: sendError, then typing false when chatId && agentId
catchEvents(chatId, agentId) ==
    <<sendError("Failed to process message", 400)>>
    \o (IF Truthy(chatId) /\ Truthy(agentId)
        THEN <<typingEvent(chatId, agentId, FALSE)>> ELSE <<>>)

\* the events emitted before sendMessage is called
receivedEvents(fl, t) ==
    <<optimisticEcho(fl, t), typingEvent(fl.chatId, fl.agentId, TRUE)>>

\* mutant: the confirmed echo is left out
confirmationEventsNoEcho(fl, ms, found) ==
    <<typingEvent(fl.chatId, fl.agentId, FALSE)>>

\* the events emitted after sendMessage returned: the confirmed echo when
\* the user message was found, then typing false
confirmationEvents(fl, ms, found) ==
    (IF found # {} THEN <<confirmedEcho(fl, ms[Max(found)])>> ELSE <<>>)
    \o <<typingEvent(fl.chatId, fl.agentId, FALSE)>>

Emit(f, events) == emitted' = [emitted EXCEPT ![f] = @ \o events]

\* an exception reaches the catch block of handleMessage
Catch(f, failure) ==
    /\ flows' = [flows EXCEPT ![f].pc = "errored", ![f].failure = failure]
    /\ Emit(f, catchEvents(flows[f].chatId, flows[f].agentId))

\* mutant: the early return echoes the message before the error event
RejectAfterEcho(f, fl, message) ==
    /\ flows' = [flows EXCEPT ![f] = [fl EXCEPT !.pc = "rejected"]]
    /\ Emit(f, <<optimisticEcho(fl, now), sendError(message, 400)>>)

\* an early return with an error event
Reject(f, fl, message) ==
    /\ flows' = [flows EXCEPT ![f] = [fl EXCEPT !.pc = "rejected"]]
    /\ Emit(f, <<sendError(message, 400)>>)

\* WebSocketService.addConnection
addConnection(s) ==
    /\ s \notin DOMAIN connections
    /\ connections' =
           [c \in DOMAIN connections \cup {s} |->
               IF c = s THEN [userId |-> SocketUser[s], connectionId |-> s,
                              joinedChats |-> {}]
               ELSE connections[c]]
    /\ transport' = [transport EXCEPT ![s] = "open"]
    /\ UNCHANGED <<now, rateLimiter, rlHistory, roomVars, chats, messages, flows,
                   emitted, segLog, timerVars>>

\* handleMessage up to its first await: registry lookup, rate limit,
\* payload validation
handleMessage(f, s, chatId, content, agentId) ==
    LET fl == [IdleFlow EXCEPT !.sock = s, !.chatId = chatId,
                               !.content = content, !.agentId = agentId,
                               !.messageId = f]
    IN  /\ flows[f].pc = "idle"
        /\ \A g \in Flows : g < f => flows[g].pc # "idle"
        /\ IF s \notin DOMAIN connections
           THEN /\ Reject(f, fl, "Connection not found")
                /\ UNCHANGED rateLimiter
           ELSE LET userId == connections[s].userId
                    key == rateKey(userId, "message")
                    bound == [fl EXCEPT
                                 !.userId = userId,
                                 !.allowed = checkRateLimit(rateLimiter, userId,
                                                            "message", now)]
                IN  /\ rateLimiter' = rateLimiterAfter(rateLimiter, key, now)
                    /\ IF ~checkRateLimit(rateLimiter, userId, "message", now)
                       THEN Reject(f, bound, "Rate limit exceeded")
                       ELSE IF ~Truthy(chatId) \/ ~Truthy(content) \/ ~Truthy(agentId)
                       THEN Reject(f, bound, "Invalid message format")
                       ELSE /\ flows' = [flows EXCEPT
                                            ![f] = [bound EXCEPT !.pc = "accessCheck"]]
                            /\ UNCHANGED emitted
        /\ UNCHANGED <<now, rlHistory, transport, roomVars, connections, chats, messages, segLog, timerVars>>

\* prisma.chat.findFirst of handleMessage returns; on access the optimistic
\* echo and typing true are emitted and sendMessage is called
accessCheck(f, dbOk) ==
    LET fl == flows[f]
    IN  /\ fl.pc = "accessCheck"
        /\ IF ~dbOk
           THEN Catch(f, "persistence")
           ELSE IF ~chatFound(chats, fl.chatId, fl.userId)
           THEN Reject(f, fl, "Access denied to chat")
           ELSE /\ flows' = [flows EXCEPT ![f].pc = "sm_findChat"]
                /\ Emit(f, receivedEvents(fl, now))
        /\ UNCHANGED <<now, rateLimiter, rlHistory, transport, roomVars, connections, chats,
                       messages, segLog, timerVars>>

(***************************************************************************)
(* ChatService.sendMessage, generateAIResponse, generateMockAIResponse     *)
(***************************************************************************)
\* sendMessage: prisma.chat.findFirst returns
sendMessageFindChat(f, dbOk) ==
    LET fl == flows[f]
    IN  /\ fl.pc = "sm_findChat"
        /\ IF ~dbOk
           THEN Catch(f, "persistence")
           ELSE IF ~chatFound(chats, fl.chatId, fl.userId)
           THEN Catch(f, "notfound")
           ELSE /\ flows' = [flows EXCEPT
                                ![f].pc = "sm_createUser",
                                ![f].chatCount = chats[fl.chatId].messageCount]
                /\ UNCHANGED emitted
        /\ UNCHANGED <<now, rateLimiter, rlHistory, transport, roomVars, connections, chats,
                       messages, segLog, timerVars>>

\* mutant: a failed create of the user message is ignored
sendMessageCreateUserSwallows(f, dbOk) ==
    LET fl == flows[f]
    IN  /\ fl.pc = "sm_createUser"
        /\ messages' = IF dbOk THEN createMessage(messages, userMessageData(fl, f))
                       ELSE messages
        /\ flows' = [flows EXCEPT ![f].pc = "sm_updateChat"]
        /\ UNCHANGED <<now, rateLimiter, rlHistory, transport, roomVars,
                       connections, chats, emitted, segLog, timerVars>>

\* sendMessage: prisma.message.create of the user message
sendMessageCreateUser(f, dbOk) ==
    LET fl == flows[f]
    IN  /\ fl.pc = "sm_createUser"
        /\ IF ~dbOk
           THEN /\ Catch(f, "persistence")
                /\ UNCHANGED messages
           ELSE /\ messages' = createMessage(messages, userMessageData(fl, f))
                /\ flows' = [flows EXCEPT ![f].pc = "sm_updateChat"]
                /\ UNCHANGED emitted
        /\ UNCHANGED <<now, rateLimiter, rlHistory, transport, roomVars, connections, chats, segLog, timerVars>>

\* sendMessage: prisma.chat.update; then generateAIResponse maps the agent
sendMessageUpdateChat(f, dbOk) ==
    LET fl == flows[f]
    IN  /\ fl.pc = "sm_updateChat"
        /\ IF ~dbOk
           THEN /\ Catch(f, "persistence")
                /\ UNCHANGED chats
           ELSE /\ chats' = updateChat(chats, fl.chatId, fl.content)
                /\ IF fl.agentId \notin DOMAIN agentToPersonaMap
                   THEN Catch(f, "persona")
                   ELSE /\ flows' = [flows EXCEPT ![f].pc = "ai_findHistory"]
                        /\ UNCHANGED emitted
        /\ UNCHANGED <<now, rateLimiter, rlHistory, transport, roomVars, connections, messages, segLog, timerVars>>

\* generateAIResponse: prisma.message.findMany of the history
generateAIResponseHistory(f, dbOk) ==
    LET fl == flows[f]
    IN  /\ fl.pc = "ai_findHistory"
        /\ IF ~dbOk
           THEN Catch(f, "persistence")
           ELSE /\ flows' = [flows EXCEPT
                                ![f].pc = "ai_fetch",
                                ![f].attempt = 1,
                                ![f].historyLen =
                                    Len(conversationHistory(messages, fl.chatId))]
                /\ UNCHANGED emitted
        /\ UNCHANGED <<now, rateLimiter, rlHistory, transport, roomVars, connections, chats,
                       messages, segLog, timerVars>>

\* mutant: the retry loop starts over after its last attempt failed
generateMockAIResponseRetriesForever(f, out) ==
    LET fl == flows[f]
    IN  /\ fl.pc = "ai_fetch"
        /\ IF out.kind = "throw"
           THEN /\ flows' = [flows EXCEPT
                                ![f].attempt = IF @ < maxRetries THEN @ + 1 ELSE 1]
                /\ UNCHANGED emitted
           ELSE IF ~upstreamIsReply(out)
           THEN Catch(f, "protocol")
           ELSE /\ flows' = [flows EXCEPT
                                ![f].pc = "ai_createAssistant",
                                ![f].upstreamSegments = upstreamSegments(out),
                                ![f].primary = bridgePrimary(out),
                                ![f].additional = bridgeAdditional(out)]
                /\ UNCHANGED emitted
        /\ UNCHANGED <<now, rateLimiter, rlHistory, transport, roomVars, connections, chats,
                       messages, segLog, timerVars>>

\* generateMockAIResponse: one attempt of the retry loop and, when fetch
\* returned, the handling of the response
generateMockAIResponse(f, out) ==
    LET fl == flows[f]
    IN  /\ fl.pc = "ai_fetch"
        /\ IF out.kind = "throw"
           THEN IF fl.attempt < maxRetries
                THEN /\ flows' = [flows EXCEPT ![f].attempt = @ + 1]
                     /\ UNCHANGED emitted
                ELSE Catch(f, "upstream")
           ELSE IF ~upstreamIsReply(out)
           THEN Catch(f, "protocol")
           ELSE /\ flows' = [flows EXCEPT
                                ![f].pc = "ai_createAssistant",
                                ![f].upstreamSegments = upstreamSegments(out),
                                ![f].primary = bridgePrimary(out),
                                ![f].additional = bridgeAdditional(out)]
                /\ UNCHANGED emitted
        /\ UNCHANGED <<now, rateLimiter, rlHistory, transport, roomVars, connections, chats,
                       messages, segLog, timerVars>>

\* generateAIResponse: prisma.message.create of the primary reply
generateAIResponseCreate(f, dbOk) ==
    LET fl == flows[f]
        ms == createMessage(messages, assistantMessageData(fl, f))
    IN  /\ fl.pc = "ai_createAssistant"
        /\ IF ~dbOk
           THEN /\ Catch(f, "persistence")
                /\ UNCHANGED messages
           ELSE /\ messages' = ms
                /\ flows' = [flows EXCEPT
                                ![f].pc = "ai_updateChat",
                                ![f].ai = finalResponse(ms[Len(ms)])]
                /\ UNCHANGED emitted
        /\ UNCHANGED <<now, rateLimiter, rlHistory, transport, roomVars, connections, chats, segLog, timerVars>>

\* generateAIResponse: prisma.chat.update, and the return to handleMessage
generateAIResponseUpdateChat(f, dbOk) ==
    LET fl == flows[f]
    IN  /\ fl.pc = "ai_updateChat"
        /\ IF ~dbOk
           THEN /\ Catch(f, "persistence")
                /\ UNCHANGED chats
           ELSE /\ chats' = updateChat(chats, fl.chatId, fl.primary)
                /\ flows' = [flows EXCEPT ![f].pc = "findUserMessage"]
                /\ UNCHANGED emitted
        /\ UNCHANGED <<now, rateLimiter, rlHistory, transport, roomVars, connections, messages, segLog, timerVars>>

(***************************************************************************)
(* handleMessage after sendMessage returned                                *)
(***************************************************************************)
\* setTimeout(..., 500): timers of equal delay fire in the order they were set
setTimer500(f) ==
    /\ timers500' = Append(timers500, [flow |-> f, serial |-> timerCount + 1])
    /\ timerCount' = timerCount + 1

\* the 500 ms timer of f is the next one to fire
timer500Due(f) == timers500 # <<>> /\ Head(timers500).flow = f

\* setTimeout(resolve, 1000 + Math.random() * 2000): the delay outlasts
\* every 500 ms timer that is pending when it starts
delayStarted(fl) == [fl EXCEPT !.waitFor = timerCount]

delayOver(fl) ==
    \A k \in 1 .. Len(timers500) : timers500[k].serial > fl.waitFor

\* prisma.message.findFirst of the user message returns: confirmed echo,
\* typing false, setTimeout(500), return true
confirmUserMessage(f, dbOk) ==
    LET fl == flows[f]
    IN  /\ fl.pc = "findUserMessage"
        /\ IF ~dbOk
           THEN /\ Catch(f, "persistence")
                /\ UNCHANGED timerVars
           ELSE /\ flows' = [flows EXCEPT ![f].pc = "timerPrimary"]
                /\ Emit(f, confirmationEvents(fl, messages,
                                              userMessageMatches(messages, fl)))
                /\ setTimer500(f)
        /\ UNCHANGED <<now, rateLimiter, rlHistory, transport, roomVars, connections, chats,
                       messages, segLog>>

\* the setTimeout callback: the first assistant message, then the loop
\* over additionalMessages up to its first delay
emitPrimary(f) ==
    LET fl == flows[f]
        more == fl.ai.isMultiMessage /\ Len(fl.ai.additionalMessages) > 0
    IN  /\ fl.pc = "timerPrimary"
        /\ timer500Due(f)
        /\ timers500' = Tail(timers500)
        /\ Emit(f, <<primaryEvent(fl)>>)
        /\ segLog' = [segLog EXCEPT ![fl.sock] = Append(@, <<f, 1>>)]
        /\ flows' = [flows EXCEPT
                        ![f] = [delayStarted(fl) EXCEPT
                                   !.pc = IF more THEN "segDelay" ELSE "done",
                                   !.i = 0]]
        /\ UNCHANGED <<now, rateLimiter, rlHistory, transport, roomVars, connections, chats,
                       messages, timerCount>>

\* the loop body after the 1-3 second delay: typing true, 500 ms pause
additionalTyping(f) ==
    LET fl == flows[f]
    IN  /\ fl.pc = "segDelay"
        /\ delayOver(fl)
        /\ Emit(f, <<typingEvent(fl.chatId, fl.agentId, TRUE)>>)
        /\ flows' = [flows EXCEPT ![f].pc = "segTyping"]
        /\ setTimer500(f)
        /\ UNCHANGED <<now, rateLimiter, rlHistory, transport, roomVars, connections, chats,
                       messages, segLog>>

\* the loop body after the 500 ms pause: typing false, additional message i
additionalMessage(f) ==
    LET fl == flows[f]
        more == fl.i + 1 < Len(fl.ai.additionalMessages)
    IN  /\ fl.pc = "segTyping"
        /\ timer500Due(f)
        /\ timers500' = Tail(timers500)
        /\ Emit(f, <<typingEvent(fl.chatId, fl.agentId, FALSE),
                     additionalEvent(fl, fl.i)>>)
        /\ segLog' = [segLog EXCEPT ![fl.sock] = Append(@, <<f, fl.i + 2>>)]
        /\ flows' = [flows EXCEPT
                        ![f] = [delayStarted(fl) EXCEPT
                                   !.i = @ + 1,
                                   !.pc = IF more THEN "segDelay" ELSE "done"]]
        /\ UNCHANGED <<now, rateLimiter, rlHistory, transport, roomVars, connections, chats,
                       messages, timerCount>>

(***************************************************************************)
(* The specification of the send-flows                                     *)
(***************************************************************************)
Init ==
    /\ now = 0
    /\ rateLimiter \in RateLimiterInits
    /\ rlLast = NoCall
    /\ rlWindow = <<>>
    /\ rlRecent = <<>>
    /\ connections = <<>>
    /\ chats = ChatsInit
    /\ messages = <<>>
    /\ flows = [f \in Flows |-> IdleFlow]
    /\ emitted = [f \in Flows |-> <<>>]
    /\ segLog = [s \in Sockets |-> <<>>]
    /\ timers500 = <<>>
    /\ timerCount = 0
    /\ transport = [s \in Sockets |-> "new"]
    /\ conn = [s \in Sockets |-> IdleConn]
    /\ chatRooms = <<>>
    /\ handlers = [s \in Sockets |-> IdleHandler]
    /\ lastEmit = <<>>

Next ==
    \/ \E s \in Sockets : addConnection(s)
    \/ \E f \in Flows, s \in Sockets, chatId \in ChatIdInputs,
          content \in ContentInputs, agentId \in AgentInputs :
          handleMessage(f, s, chatId, content, agentId)
    \/ \E f \in Flows, dbOk \in BOOLEAN : accessCheck(f, dbOk)
    \/ \E f \in Flows, dbOk \in BOOLEAN : sendMessageFindChat(f, dbOk)
    \/ \E f \in Flows, dbOk \in BOOLEAN : sendMessageCreateUser(f, dbOk)
    \/ \E f \in Flows, dbOk \in BOOLEAN : sendMessageUpdateChat(f, dbOk)
    \/ \E f \in Flows, dbOk \in BOOLEAN : generateAIResponseHistory(f, dbOk)
    \/ \E f \in Flows, out \in UpstreamOutcomes : generateMockAIResponse(f, out)
    \/ \E f \in Flows, dbOk \in BOOLEAN : generateAIResponseCreate(f, dbOk)
    \/ \E f \in Flows, dbOk \in BOOLEAN : generateAIResponseUpdateChat(f, dbOk)
    \/ \E f \in Flows, dbOk \in BOOLEAN : confirmUserMessage(f, dbOk)
    \/ \E f \in Flows : emitPrimary(f)
    \/ \E f \in Flows : additionalTyping(f)
    \/ \E f \in Flows : additionalMessage(f)

Spec == Init /\ [][Next]_vars

(***************************************************************************)
(* Properties of the send-flows (specification Spec)                       *)
(***************************************************************************)
Terminal == {"done", "errored", "rejected"}

\* the assistant / user messages a send has persisted
AssistantPersisted(f) ==
    {k \in 1 .. Len(messages) :
        messages[k].role = "assistant" /\ messages[k].send = f}

UserPersisted(f) ==
    {k \in 1 .. Len(messages) :
        messages[k].role = "user" /\ messages[k].send = f}

IsUserEcho(e, confirmed) ==
    e.type = "message" /\ e.role = "user" /\ e.hasConfirmed /\ e.confirmed = confirmed

IsTyping(e, isTyping) == e.type = "typing" /\ e.isTyping = isTyping

IsError(e) == e.type = "error"

IsAssistant(e) == e.type = "message" /\ e.role = "assistant"

IsPrimary(e) == IsAssistant(e) /\ e.isFirst

IsAdditional(e, index, total) ==
    /\ IsAssistant(e)
    /\ e.isAdditional
    /\ e.messageIndex = index
    /\ e.totalMessages = total

\* the positions of a send's log that hold an event of a kind
ErrorsAt(f) == {k \in 1 .. Len(emitted[f]) : IsError(emitted[f][k])}

ConfirmedAt(f) == {k \in 1 .. Len(emitted[f]) : IsUserEcho(emitted[f][k], TRUE)}

AssistantAt(f) == {k \in 1 .. Len(emitted[f]) : IsAssistant(emitted[f][k])}

\* the number of reply segments the upstream call of a send returned
SegmentCount(f) == Len(flows[f].upstreamSegments)

C2_ConfirmedAfterPersistBeforePrimary ==
    \A f \in Flows :
        /\ \A k \in ConfirmedAt(f) :
              /\ UserPersisted(f) # {}
              /\ emitted[f][k].messageId = <<flows[f].messageId>>
        /\ \A k \in 1 .. Len(emitted[f]) :
              IsPrimary(emitted[f][k]) => \E j \in ConfirmedAt(f) : j < k

\* C2 witness: a send-flow has emitted its primary assistant message
C2_Witness ==
    \E f \in Flows :
        /\ \E k \in 1 .. Len(emitted[f]) : IsPrimary(emitted[f][k])
        /\ ConfirmedAt(f) # {}

\* every typing event with isTyping=true of a send's log is followed by one
\* with isTyping=false for the same chat and agent
TypingMatched(f) ==
    \A k \in 1 .. Len(emitted[f]) :
        IsTyping(emitted[f][k], TRUE) =>
            \E j \in k + 1 .. Len(emitted[f]) :
                /\ IsTyping(emitted[f][j], FALSE)
                /\ emitted[f][j].chatId = emitted[f][k].chatId
                /\ emitted[f][j].agentId = emitted[f][k].agentId

TypingStarts(f) == {k \in 1 .. Len(emitted[f]) : IsTyping(emitted[f][k], TRUE)}

\* C3: a send-flow that has ended, by completion or by failure, leaves no
\* typing event with isTyping=true without a later isTyping=false for the
\* same chat and agent; during the flow the indicator is on only at a
\* suspension point that the flow leaves by turning it off.
C3_TypingStoppedAfterStarted ==
    \A f \in Flows :
        /\ flows[f].pc \in Terminal => TypingMatched(f)
        /\ ~TypingMatched(f) =>
              flows[f].pc \in {"sm_findChat", "sm_createUser", "sm_updateChat",
                               "ai_findHistory", "ai_fetch", "ai_createAssistant",
                               "ai_updateChat", "findUserMessage", "segTyping"}

\* C3 witness: one send failed upstream after typing had started, and
\* another went through the loop of additional segments
C3_Witness ==
    \E f, g \in Flows :
        /\ flows[f].pc = "errored"
        /\ flows[f].failure = "upstream"
        /\ TypingStarts(f) # {}
        /\ flows[g].pc = "done"
        /\ Cardinality(TypingStarts(g)) = 3

\* C4 (as stated): when a send-flow fails after typing-started was emitted,
\* typing-stopped is emitted before the error event: no error event of a
\* flow follows a typing event with isTyping=true without a typing event
\* with isTyping=false in between.
C4_TypingStoppedBeforeError ==
    \A f \in Flows :
        \A k \in ErrorsAt(f) :
            \A j \in 1 .. k - 1 :
                IsTyping(emitted[f][j], TRUE) =>
                    \E i \in j + 1 .. k - 1 : IsTyping(emitted[f][i], FALSE)

\* the send failed because fetch threw on both attempts
UpstreamFailedTwice(f) ==
    /\ flows[f].pc = "errored"
    /\ flows[f].failure = "upstream"
    /\ flows[f].attempt = maxRetries

C6_TwoSegmentScenario ==
    \A f \in Flows :
        (flows[f].pc = "done" /\ SegmentCount(f) = 2) =>
            /\ Len(emitted[f]) = 8
            /\ IsUserEcho(emitted[f][1], FALSE)
            /\ IsTyping(emitted[f][2], TRUE)
            /\ IsUserEcho(emitted[f][3], TRUE)
            /\ IsTyping(emitted[f][4], FALSE)
            /\ IsPrimary(emitted[f][5])
            /\ \/ emitted[f][5].totalMessages = 2
               \/ emitted[f][5].metaTotalMessages = 2
            /\ IsTyping(emitted[f][6], TRUE)
            /\ IsTyping(emitted[f][7], FALSE)
            /\ IsAdditional(emitted[f][8], 2, 2)

\* the order of events of the two-segment scenario, without the total on
\* the first segment (holds; kept beside C6 to show what the code does)
TwoSegmentOrder ==
    \A f \in Flows :
        (flows[f].pc = "done" /\ SegmentCount(f) = 2) =>
            /\ Len(emitted[f]) = 8
            /\ IsUserEcho(emitted[f][1], FALSE)
            /\ IsTyping(emitted[f][2], TRUE)
            /\ IsUserEcho(emitted[f][3], TRUE)
            /\ IsTyping(emitted[f][4], FALSE)
            /\ IsPrimary(emitted[f][5])
            /\ emitted[f][5].totalMessages = 0
            /\ emitted[f][5].metaTotalMessages >= 3
            /\ emitted[f][5].metaAdditional = Tail(flows[f].upstreamSegments)
            /\ IsTyping(emitted[f][6], TRUE)
            /\ IsTyping(emitted[f][7], FALSE)
            /\ IsAdditional(emitted[f][8], 2, 2)

\* the assistant messages emitted on a socket for one send are in index order
SegmentsInIndexOrder(s) ==
    \A i, j \in 1 .. Len(segLog[s]) :
        (i < j /\ segLog[s][i][1] = segLog[s][j][1]) =>
            segLog[s][i][2] < segLog[s][j][2]

\* no assistant message of another send lies between two of one send
SegmentsNotInterleaved(s) ==
    \A i, j, k \in 1 .. Len(segLog[s]) :
        (i < j /\ j < k /\ segLog[s][i][1] = segLog[s][k][1]) =>
            segLog[s][j][1] = segLog[s][i][1]

\* C7 (as stated): for two send-flows in flight at the same time on one
\* connection for the same conversation and persona, the assistant segments
\* of each flow are emitted in index order and the segments of one flow are
\* never interleaved with those of the other.
C7_SegmentsNeverInterleaved ==
    \A s \in Sockets : SegmentsInIndexOrder(s) /\ SegmentsNotInterleaved(s)

(***************************************************************************)
(* Rejections of handleMessage (specification Spec)                        *)
(***************************************************************************)
IsRateLimitError(e) == IsError(e) /\ e.content = "Rate limit exceeded"

\* C11 (as stated): the error event of a message rejected by the rate limiter
\* carries a code distinct from the codes of the other error events of
\* handleMessage (connection not found, invalid format, access denied,
\* processing failure).
C11_RateLimitCodeDistinct ==
    \A f, g \in Flows :
        \A k \in ErrorsAt(f), j \in ErrorsAt(g) :
            (IsRateLimitError(emitted[f][k]) /\ ~IsRateLimitError(emitted[g][j]))
                => emitted[f][k].code # emitted[g][j].code

(***************************************************************************)
(* ChatGateway and the registry and rooms of WebSocketService              *)
(* (specification RoomSpec)                                                *)
(***************************************************************************)
\* the ids of the rows of the user store
UserStore == {1, 2}

\* the tokens a client may present: none, one that does not decode, one
\* without sub, signed tokens of users 1 and 2 and of a user that does not
\* exist, and a token that decodes to user 1 but is not signed by the service
TokenInputs ==
    {NoToken,
     [present |-> TRUE, decodes |-> FALSE, sub |-> 0, valid |-> FALSE],
     [present |-> TRUE, decodes |-> TRUE, sub |-> 0, valid |-> TRUE],
     [present |-> TRUE, decodes |-> TRUE, sub |-> 1, valid |-> TRUE],
     [present |-> TRUE, decodes |-> TRUE, sub |-> 2, valid |-> TRUE],
     [present |-> TRUE, decodes |-> TRUE, sub |-> 3, valid |-> TRUE],
     [present |-> TRUE, decodes |-> TRUE, sub |-> 1, valid |-> FALSE]}

\* jwtService.decode(token): the payload, whatever the signature and expiry
\* (ok is false when decode returns null)
decode(token) ==
    IF token.decodes THEN [ok |-> TRUE, sub |-> token.sub]
    ELSE [ok |-> FALSE, sub |-> 0]

\* the chats of the store: both belong to user 1
RoomChatIds == {"chatA", "chatB"}

RoomChatsInit ==
    [c \in RoomChatIds |-> [userId |-> 1, messageCount |-> 0, lastMessage |-> ""]]

\* payload.data of typing events: well-formed for each chat, and one with
\* each field missing or of the wrong type
BooleanValue == [isBoolean |-> TRUE, value |-> TRUE]
NotBoolean == [isBoolean |-> FALSE, value |-> FALSE]

TypingPayloads ==
    {[chatId |-> c, agentId |-> "therapist", isTyping |-> BooleanValue] :
        c \in RoomChatIds}
    \cup {[chatId |-> "", agentId |-> "therapist", isTyping |-> BooleanValue],
          [chatId |-> "chatA", agentId |-> "", isTyping |-> BooleanValue],
          [chatId |-> "chatA", agentId |-> "therapist", isTyping |-> NotBoolean]}

\* payload.data of read_receipt events
MessageIds == [given |-> TRUE, isArray |-> TRUE, ids |-> {<<"msg", 1>>}]

ReadReceiptPayloads ==
    {[chatId |-> c, messageIds |-> MessageIds] : c \in RoomChatIds}
    \cup {[chatId |-> "", messageIds |-> MessageIds],
          [chatId |-> "chatA",
           messageIds |-> [given |-> FALSE, isArray |-> FALSE, ids |-> {}]],
          [chatId |-> "chatA",
           messageIds |-> [given |-> TRUE, isArray |-> FALSE, ids |-> {}]]}

\* payload.data of chat_update events
ChatUpdatePayloads ==
    {[action |-> a, chatId |-> c] : a \in {"join", "leave"}, c \in RoomChatIds}
    \cup {[action |-> "", chatId |-> "chatA"],
          [action |-> "delete", chatId |-> "chatA"],
          [action |-> "join", chatId |-> ""]}

\* an event emitted to a socket
socketEvent(to, type, message, code, chatId) ==
    [to |-> to, type |-> type, message |-> message, code |-> code,
     chatId |-> chatId]

\* sendError(client, message, code = 400), as an event to the socket
errorTo(s, message, code) == socketEvent(s, "error", message, code, "")

\* leaveChatRoom(connectionId, chatId) on the registry and the room map
leaveChatRoom(reg, connectionId, chatId) ==
    IF connectionId \notin DOMAIN reg.connections THEN reg
    ELSE LET left == IF chatId \in DOMAIN reg.chatRooms
                     THEN reg.chatRooms[chatId] \ {connectionId} ELSE {}
             rooms == IF chatId \notin DOMAIN reg.chatRooms THEN reg.chatRooms
                      ELSE IF left = {}
                      THEN [r \in DOMAIN reg.chatRooms \ {chatId} |->
                               reg.chatRooms[r]]
                      ELSE [reg.chatRooms EXCEPT ![chatId] = left]
         IN  [connections |->
                  [reg.connections EXCEPT
                      ![connectionId].joinedChats = @ \ {chatId}],
              chatRooms |-> rooms]

\* mutant: joinChatRoom does not record the chat on the connection
joinChatRoomNoMembership(reg, connectionId, chatId) ==
    IF connectionId \notin DOMAIN reg.connections THEN reg
    ELSE [connections |-> reg.connections,
          chatRooms |->
              [r \in DOMAIN reg.chatRooms \cup {chatId} |->
                  IF r = chatId
                  THEN (IF r \in DOMAIN reg.chatRooms THEN reg.chatRooms[r]
                        ELSE {}) \cup {connectionId}
                  ELSE reg.chatRooms[r]]]

\* joinChatRoom(connectionId, chatId)
joinChatRoom(reg, connectionId, chatId) ==
    IF connectionId \notin DOMAIN reg.connections THEN reg
    ELSE [connections |->
              [reg.connections EXCEPT
                  ![connectionId].joinedChats = @ \cup {chatId}],
          chatRooms |->
              [r \in DOMAIN reg.chatRooms \cup {chatId} |->
                  IF r = chatId
                  THEN (IF r \in DOMAIN reg.chatRooms THEN reg.chatRooms[r]
                        ELSE {}) \cup {connectionId}
                  ELSE reg.chatRooms[r]]]

\* connection.joinedChats.forEach((chatId) => leaveChatRoom(id, chatId))
RECURSIVE leaveAll(_, _, _)
leaveAll(reg, connectionId, chatIds) ==
    IF chatIds = {} THEN reg
    ELSE LET chatId == CHOOSE c \in chatIds : TRUE
         IN  leaveAll(leaveChatRoom(reg, connectionId, chatId), connectionId,
                      chatIds \ {chatId})

\* mutant: removeConnection deletes the connection without leaving its rooms
removeConnectionKeepsRooms(reg, connectionId) ==
    IF connectionId \notin DOMAIN reg.connections THEN reg
    ELSE [connections |->
              [c \in DOMAIN reg.connections \ {connectionId} |->
                  reg.connections[c]],
          chatRooms |-> reg.chatRooms]

\* removeConnection(connectionId)
removeConnection(reg, connectionId) ==
    IF connectionId \notin DOMAIN reg.connections THEN reg
    ELSE LET left == leaveAll(reg, connectionId,
                              reg.connections[connectionId].joinedChats)
         IN  [connections |->
                  [c \in DOMAIN left.connections \ {connectionId} |->
                      left.connections[c]],
              chatRooms |-> left.chatRooms]

\* the registry and the room map of the current state
Registry == [connections |-> connections, chatRooms |-> chatRooms]

RECURSIVE SetToSeq(_)
SetToSeq(S) ==
    IF S = {} THEN <<>>
    ELSE LET x == CHOOSE y \in S : TRUE IN <<x>> \o SetToSeq(S \ {x})

\* mutant: broadcastToChat does not look at the transport
broadcastRecipientsAnyTransport(rooms, conns, tr, chatId) ==
    IF chatId \notin DOMAIN rooms THEN {}
    ELSE {c \in rooms[chatId] : c \in DOMAIN conns}

\* broadcastToChat: the members the event is emitted to
broadcastRecipients(rooms, conns, tr, chatId) ==
    IF chatId \notin DOMAIN rooms THEN {}
    ELSE {c \in rooms[chatId] : c \in DOMAIN conns /\ tr[c] = "open"}

\* broadcastToChat(chatId, message), as the events it emits
broadcastToChat(chatId, type) ==
    LET to == SetToSeq(broadcastRecipients(chatRooms, connections, transport,
                                           chatId))
    IN  [k \in 1 .. Len(to) |-> socketEvent(to[k], type, "", 0, chatId)]

\* the variables no connection or room step changes
sendVars == <<now, rateLimiter, rlHistory, messages, flows, emitted,
              segLog, timerVars>>

\* handleConnection rejects: error event, client.disconnect(), return
Refuse(s, c, message, code) ==
    /\ conn' = [conn EXCEPT
                   ![s] = [c EXCEPT !.pc = "refused", !.userId = 0,
                                    !.errors = @ + 1, !.refusal = message]]
    /\ lastEmit' = <<errorTo(s, message, code)>>
    /\ transport' = [transport EXCEPT ![s] = "closed"]

\* mutant: a rejected connection is registered all the same
findUserOutcomeRegistersUnknown(userId, dbOk) ==
    IF ~dbOk THEN "failed" ELSE "found"

\* prisma.user.findUnique({ where: { id: payload.sub } }) returns or throws
findUserOutcome(userId, dbOk) ==
    IF ~dbOk THEN "failed"
    ELSE IF userId \in UserStore THEN "found" ELSE "absent"

\* ChatGateway.handleConnection up to its first await: the token is read
\* from the handshake and decoded
handleConnection(s, token) ==
    LET c == [conn[s] EXCEPT !.valid = token.present /\ token.valid]
        payload == decode(token)
    IN  /\ transport[s] = "new"
        /\ conn[s].pc = "none"
        /\ IF ~token.present
           THEN Refuse(s, c, "Authentication token required", 401)
           ELSE IF ~payload.ok \/ payload.sub = 0
           THEN Refuse(s, c, "Invalid authentication token", 401)
           ELSE /\ conn' = [conn EXCEPT
                               ![s] = [c EXCEPT !.pc = "findUser",
                                                !.userId = payload.sub]]
                /\ transport' = [transport EXCEPT ![s] = "open"]
                /\ lastEmit' = <<>>
        /\ UNCHANGED <<sendVars, chats, connections, chatRooms, handlers>>

\* handleConnection: prisma.user.findUnique returns; the connection is added
\* to the registry
handleConnectionFindUser(s, dbOk) ==
    LET c == conn[s]
        found == findUserOutcome(c.userId, dbOk)
    IN  /\ c.pc = "findUser"
        /\ IF found = "failed"
           THEN /\ Refuse(s, c, "Connection failed", 500)
                /\ UNCHANGED connections
           ELSE IF found = "absent"
           THEN /\ Refuse(s, c, "User not found", 404)
                /\ UNCHANGED connections
           ELSE /\ connections' =
                       [k \in DOMAIN connections \cup {s} |->
                           IF k = s
                           THEN [userId |-> c.userId, connectionId |-> s,
                                 joinedChats |-> {}]
                           ELSE connections[k]]
                /\ conn' = [conn EXCEPT ![s].pc = "updateUser"]
                /\ lastEmit' = <<>>
                /\ UNCHANGED transport
        /\ UNCHANGED <<sendVars, chats, chatRooms, handlers>>

\* handleConnection: prisma.user.update returns; 'connected' is emitted
handleConnectionUpdateUser(s, dbOk) ==
    LET c == conn[s]
    IN  /\ c.pc = "updateUser"
        /\ IF ~dbOk
           THEN Refuse(s, c, "Connection failed", 500)
           ELSE /\ conn' = [conn EXCEPT ![s].pc = "connected"]
                /\ lastEmit' = <<socketEvent(s, "connected", "", 0, "")>>
                /\ UNCHANGED transport
        /\ UNCHANGED <<sendVars, chats, connections, chatRooms, handlers>>

\* the client closes the socket, or the transport drops
clientDisconnect(s) ==
    /\ transport[s] = "open"
    /\ transport' = [transport EXCEPT ![s] = "closed"]
    /\ lastEmit' = <<>>
    /\ UNCHANGED <<sendVars, chats, connections, chatRooms, handlers, conn>>

\* mutant: removing the connection abandons the sends it has in flight
handleDisconnectAbandonsSends(s) ==
    LET reg == removeConnection(Registry, s)
    IN  /\ transport[s] = "closed"
        /\ ~conn[s].gone
        /\ connections' = reg.connections
        /\ chatRooms' = reg.chatRooms
        /\ conn' = [conn EXCEPT
                       ![s].gone = TRUE,
                       ![s].hadJoined = IF s \in DOMAIN connections
                                        THEN connections[s].joinedChats
                                        ELSE {}]
        /\ lastEmit' = <<>>
        /\ flows' = [f \in DOMAIN flows |->
                        IF flows[f].sock = s
                           /\ flows[f].pc \notin {"idle", "rejected", "errored", "done"}
                        THEN [flows[f] EXCEPT !.pc = "errored"]
                        ELSE flows[f]]
        /\ UNCHANGED <<now, rateLimiter, rlHistory, messages, emitted, segLog,
                       timerVars, chats, transport, handlers>>

\* ChatGateway.handleDisconnect: the 'disconnect' event of a closed socket
handleDisconnect(s) ==
    LET reg == removeConnection(Registry, s)
    IN  /\ transport[s] = "closed"
        /\ ~conn[s].gone
        /\ connections' = reg.connections
        /\ chatRooms' = reg.chatRooms
        /\ conn' = [conn EXCEPT
                       ![s].gone = TRUE,
                       ![s].hadJoined = IF s \in DOMAIN connections
                                        THEN connections[s].joinedChats
                                        ELSE {}]
        /\ lastEmit' = <<>>
        /\ UNCHANGED <<sendVars, chats, transport, handlers>>

\* mutant: the error of an event handler is emitted to every socket
HandlerErrorToAll(s, message) ==
    /\ handlers' = [handlers EXCEPT ![s] = IdleHandler]
    /\ lastEmit' = [k \in 1 .. Len(SetToSeq(Sockets)) |->
                        errorTo(SetToSeq(Sockets)[k], message, 400)]

\* an event handler returns false after sendError(client, message)
HandlerError(s, message) ==
    /\ handlers' = [handlers EXCEPT ![s] = IdleHandler]
    /\ lastEmit' = <<errorTo(s, message, 400)>>

\* the typing, read_receipt and chat_update events in flight
InFlight == {t \in Sockets : handlers[t].pc # "idle"}

\* an event handler suspends at prisma.chat.findFirst
HandlerAwait(s, h) ==
    /\ Cardinality(InFlight) < MaxInFlight
    /\ handlers' = [handlers EXCEPT
                       ![s] = [h EXCEPT !.pc = "access",
                                        !.userId = connections[s].userId]]
    /\ lastEmit' = <<>>

\* the variables an event handler leaves alone unless it joins or leaves
handlerFrame == <<sendVars, chats, conn, transport>>

\* mutant: the typing event of an unregistered socket is handled with the
\* user of the socket's handshake
handleTypingSkipsRegistry(s, chatId, agentId, isTyping) ==
    LET h == [IdleHandler EXCEPT !.kind = "typing", !.chatId = chatId]
    IN  /\ transport[s] = "open"
        /\ handlers[s].pc = "idle"
        /\ IF ~Truthy(chatId) \/ ~Truthy(agentId) \/ ~isTyping.isBoolean
           THEN HandlerError(s, "Invalid typing event format")
           ELSE /\ Cardinality(InFlight) < MaxInFlight
                /\ handlers' = [handlers EXCEPT
                                   ![s] = [h EXCEPT !.pc = "access",
                                                    !.userId = conn[s].userId]]
                /\ lastEmit' = <<>>
        /\ UNCHANGED <<handlerFrame, connections, chatRooms>>

\* WebSocketService.handleTyping up to its await
handleTyping(s, chatId, agentId, isTyping) ==
    LET h == [IdleHandler EXCEPT !.kind = "typing", !.chatId = chatId]
    IN  /\ transport[s] = "open"
        /\ handlers[s].pc = "idle"
        /\ IF s \notin DOMAIN connections
           THEN HandlerError(s, "Connection not found")
           ELSE IF ~Truthy(chatId) \/ ~Truthy(agentId) \/ ~isTyping.isBoolean
           THEN HandlerError(s, "Invalid typing event format")
           ELSE HandlerAwait(s, h)
        /\ UNCHANGED <<handlerFrame, connections, chatRooms>>

\* handleTyping: prisma.chat.findFirst returns; the event is broadcast
handleTypingAccess(s, dbOk) ==
    LET h == handlers[s]
    IN  /\ h.pc = "access"
        /\ h.kind = "typing"
        /\ IF ~dbOk
           THEN HandlerError(s, "Failed to process typing event")
           ELSE IF ~chatFound(chats, h.chatId, h.userId)
           THEN HandlerError(s, "Access denied to chat")
           ELSE /\ handlers' = [handlers EXCEPT ![s] = IdleHandler]
                /\ lastEmit' = broadcastToChat(h.chatId, "typing")
        /\ UNCHANGED <<handlerFrame, connections, chatRooms>>

\* WebSocketService.handleReadReceipt up to its first await
handleReadReceipt(s, chatId, messageIds) ==
    LET h == [IdleHandler EXCEPT !.kind = "read_receipt", !.chatId = chatId,
                                 !.messageIds = messageIds.ids]
    IN  /\ transport[s] = "open"
        /\ handlers[s].pc = "idle"
        /\ IF s \notin DOMAIN connections
           THEN HandlerError(s, "Connection not found")
           ELSE IF ~Truthy(chatId) \/ ~messageIds.given \/ ~messageIds.isArray
           THEN HandlerError(s, "Invalid read receipt format")
           ELSE HandlerAwait(s, h)
        /\ UNCHANGED <<handlerFrame, connections, chatRooms>>

\* handleReadReceipt: prisma.chat.findFirst returns; markMessagesAsRead is
\* called
handleReadReceiptAccess(s, dbOk) ==
    LET h == handlers[s]
    IN  /\ h.pc = "access"
        /\ h.kind = "read_receipt"
        /\ IF ~dbOk
           THEN HandlerError(s, "Failed to process read receipt")
           ELSE IF ~chatFound(chats, h.chatId, h.userId)
           THEN HandlerError(s, "Access denied to chat")
           ELSE /\ handlers' = [handlers EXCEPT ![s].pc = "markFind"]
                /\ lastEmit' = <<>>
        /\ UNCHANGED <<handlerFrame, connections, chatRooms>>

\* ChatService.markMessagesAsRead: prisma.chat.findFirst returns
markMessagesAsReadFind(s, dbOk) ==
    LET h == handlers[s]
    IN  /\ h.pc = "markFind"
        /\ IF ~dbOk \/ ~chatFound(chats, h.chatId, h.userId)
           THEN HandlerError(s, "Failed to process read receipt")
           ELSE /\ handlers' = [handlers EXCEPT ![s].pc = "markUpdate"]
                /\ lastEmit' = <<>>
        /\ UNCHANGED <<handlerFrame, connections, chatRooms>>

\* updateMany({ where: { id, chatId }, data: { metadata: { read: true } } }):
\* the metadata of the rows becomes { read: true }
readMarked(ms, chatId, ids) ==
    [k \in 1 .. Len(ms) |->
        IF ms[k].id \in ids /\ ms[k].chatId = chatId
        THEN [ms[k] EXCEPT !.read = TRUE, !.messageIndex = 0,
                           !.totalMessages = 0, !.isMultiMessage = FALSE,
                           !.additionalMessages = <<>>]
        ELSE ms[k]]

\* markMessagesAsRead: Promise.all of the updateMany calls settles (updated:
\* the calls that succeeded); the confirmation is broadcast
markMessagesAsReadUpdate(s, updated) ==
    LET h == handlers[s]
    IN  /\ h.pc = "markUpdate"
        /\ updated \subseteq h.messageIds
        /\ messages' = readMarked(messages, h.chatId, updated)
        /\ IF updated # h.messageIds
           THEN HandlerError(s, "Failed to process read receipt")
           ELSE /\ handlers' = [handlers EXCEPT ![s] = IdleHandler]
                /\ lastEmit' = broadcastToChat(h.chatId, "read_receipt")
        /\ UNCHANGED <<now, rateLimiter, rlHistory, flows, emitted, segLog,
                       timerVars, chats, conn, transport, connections, chatRooms>>

\* WebSocketService.handleChatUpdate up to its await
handleChatUpdate(s, action, chatId) ==
    LET h == [IdleHandler EXCEPT !.kind = "chat_update", !.chatId = chatId,
                                 !.action = action]
    IN  /\ transport[s] = "open"
        /\ handlers[s].pc = "idle"
        /\ IF s \notin DOMAIN connections
           THEN HandlerError(s, "Connection not found")
           ELSE IF ~Truthy(action) \/ ~Truthy(chatId)
                   \/ action \notin {"join", "leave"}
           THEN HandlerError(s, "Invalid chat update format")
           ELSE HandlerAwait(s, h)
        /\ UNCHANGED <<handlerFrame, connections, chatRooms>>

\* mutant: the room is joined or left before the ownership of the chat is
\* looked at
handleChatUpdateAccessJoinsFirst(s, dbOk) ==
    LET h == handlers[s]
        reg == IF h.action = "join" THEN joinChatRoom(Registry, s, h.chatId)
               ELSE leaveChatRoom(Registry, s, h.chatId)
    IN  /\ h.pc = "access"
        /\ h.kind = "chat_update"
        /\ connections' = reg.connections
        /\ chatRooms' = reg.chatRooms
        /\ IF ~dbOk
           THEN HandlerError(s, "Failed to process chat update")
           ELSE IF ~chatFound(chats, h.chatId, h.userId)
           THEN HandlerError(s, "Access denied to chat")
           ELSE /\ handlers' = [handlers EXCEPT ![s] = IdleHandler]
                /\ lastEmit' = IF h.action = "join"
                               THEN <<socketEvent(s, "chat_update", "", 0, h.chatId)>>
                               ELSE <<>>
        /\ UNCHANGED handlerFrame

\* mutant: the lookup asks for the chat only, not for its owner
handleChatUpdateAccessAnyUser(s, dbOk) ==
    LET h == handlers[s]
        reg == IF h.action = "join" THEN joinChatRoom(Registry, s, h.chatId)
               ELSE leaveChatRoom(Registry, s, h.chatId)
    IN  /\ h.pc = "access"
        /\ h.kind = "chat_update"
        /\ IF ~dbOk
           THEN /\ HandlerError(s, "Failed to process chat update")
                /\ UNCHANGED <<connections, chatRooms>>
           ELSE IF h.chatId \notin DOMAIN chats
           THEN /\ HandlerError(s, "Access denied to chat")
                /\ UNCHANGED <<connections, chatRooms>>
           ELSE /\ handlers' = [handlers EXCEPT ![s] = IdleHandler]
                /\ connections' = reg.connections
                /\ chatRooms' = reg.chatRooms
                /\ lastEmit' = IF h.action = "join"
                               THEN <<socketEvent(s, "chat_update", "", 0, h.chatId)>>
                               ELSE <<>>
        /\ UNCHANGED handlerFrame

\* handleChatUpdate: prisma.chat.findFirst returns; the room is joined or left
handleChatUpdateAccess(s, dbOk) ==
    LET h == handlers[s]
        reg == IF h.action = "join" THEN joinChatRoom(Registry, s, h.chatId)
               ELSE leaveChatRoom(Registry, s, h.chatId)
    IN  /\ h.pc = "access"
        /\ h.kind = "chat_update"
        /\ IF ~dbOk
           THEN /\ HandlerError(s, "Failed to process chat update")
                /\ UNCHANGED <<connections, chatRooms>>
           ELSE IF ~chatFound(chats, h.chatId, h.userId)
           THEN /\ HandlerError(s, "Access denied to chat")
                /\ UNCHANGED <<connections, chatRooms>>
           ELSE /\ handlers' = [handlers EXCEPT ![s] = IdleHandler]
                /\ connections' = reg.connections
                /\ chatRooms' = reg.chatRooms
                /\ lastEmit' = IF h.action = "join"
                               THEN <<socketEvent(s, "chat_update", "", 0, h.chatId)>>
                               ELSE <<>>
        /\ UNCHANGED handlerFrame

\* user 1 has used up the current window, user 2 has not sent yet
RoomRateLimiterInit ==
    [k \in {rateKey(1, "message")} |->
        [count |-> RATE_LIMIT_MAX, resetTime |-> RATE_WINDOW_MS]]

RoomInit ==
    /\ now = 0
    /\ rateLimiter = RoomRateLimiterInit
    /\ rlLast = NoCall
    /\ rlWindow = <<>>
    /\ rlRecent = <<>>
    /\ connections = <<>>
    /\ chats = RoomChatsInit
    /\ messages = <<>>
    /\ flows = [f \in Flows |-> IdleFlow]
    /\ emitted = [f \in Flows |-> <<>>]
    /\ segLog = [s \in Sockets |-> <<>>]
    /\ timers500 = <<>>
    /\ timerCount = 0
    /\ transport = [s \in Sockets |-> "new"]
    /\ conn = [s \in Sockets |-> IdleConn]
    /\ chatRooms = <<>>
    /\ handlers = [s \in Sockets |-> IdleHandler]
    /\ lastEmit = <<>>

\* the message events of a run
RoomFlows == {1}

\* the signed tokens of the users of the store
RoomTokens == {t \in TokenInputs : t.valid /\ t.sub \in UserStore}

\* a message event of a connected socket, up to the call of sendMessage
\* (the send itself is specification Spec)
messageEvent(f, s, chatId) ==
    /\ transport[s] = "open"
    /\ handleMessage(f, s, chatId, "Hello", "therapist")

RoomNext ==
    \/ \E s \in Sockets, token \in RoomTokens : handleConnection(s, token)
    \/ \E s \in Sockets : handleConnectionFindUser(s, TRUE)
    \/ \E s \in Sockets : handleConnectionUpdateUser(s, TRUE)
    \/ \E s \in Sockets : clientDisconnect(s)
    \/ \E s \in Sockets : handleDisconnect(s)
    \/ \E s \in Sockets, p \in TypingPayloads :
          handleTyping(s, p.chatId, p.agentId, p.isTyping)
    \/ \E s \in Sockets, dbOk \in BOOLEAN : handleTypingAccess(s, dbOk)
    \/ \E s \in Sockets, p \in ReadReceiptPayloads :
          handleReadReceipt(s, p.chatId, p.messageIds)
    \/ \E s \in Sockets, dbOk \in BOOLEAN : handleReadReceiptAccess(s, dbOk)
    \/ \E s \in Sockets, dbOk \in BOOLEAN : markMessagesAsReadFind(s, dbOk)
    \/ \E s \in Sockets, updated \in SUBSET MessageIds.ids :
          markMessagesAsReadUpdate(s, updated)
    \/ \E s \in Sockets, p \in ChatUpdatePayloads :
          handleChatUpdate(s, p.action, p.chatId)
    \/ \E s \in Sockets, dbOk \in BOOLEAN : handleChatUpdateAccess(s, dbOk)
    \/ \E f \in RoomFlows, s \in Sockets, chatId \in {"chatA"} :
          messageEvent(f, s, chatId)
    \/ \E f \in RoomFlows, dbOk \in BOOLEAN : accessCheck(f, dbOk)

RoomSpec == RoomInit /\ [][RoomNext]_vars

\* connecting and disconnecting alone, with every kind of token and with
\* failing store calls
ConnNext ==
    \/ \E s \in Sockets, token \in TokenInputs : handleConnection(s, token)
    \/ \E s \in Sockets, dbOk \in BOOLEAN : handleConnectionFindUser(s, dbOk)
    \/ \E s \in Sockets, dbOk \in BOOLEAN : handleConnectionUpdateUser(s, dbOk)
    \/ \E s \in Sockets : clientDisconnect(s)
    \/ \E s \in Sockets : handleDisconnect(s)

ConnSpec == RoomInit /\ [][ConnNext]_vars

(***************************************************************************)
(* Properties of rejected events (specification RoomSpec)                  *)
(***************************************************************************)
\* the step in which handleMessage rejects a message event of send f because
\* checkRateLimit returned false
RateLimitedStep(f) ==
    /\ flows[f].pc = "idle"
    /\ flows'[f].pc = "rejected"
    /\ emitted'[f] # <<>>
    /\ IsRateLimitError(emitted'[f][Len(emitted'[f])])

\* C12: a message event rejected by the rate limiter changes no state other
\* than the rate-limit counter of the sender: no message is persisted, no
\* chat is updated, the send ends there (upstream is not called), the only
\* event emitted is the error, and registry and rooms are unchanged.
C12_RateLimitedChangesOnlyCounter ==
    [][\A f \in Flows :
          RateLimitedStep(f) =>
              LET key == rateKey(flows'[f].userId, "message")
              IN  /\ messages' = messages
                  /\ chats' = chats
                  /\ connections' = connections
                  /\ chatRooms' = chatRooms
                  /\ transport' = transport
                  /\ emitted'[f] = <<sendError("Rate limit exceeded", 400)>>
                  /\ \A g \in Flows \ {f} :
                        flows'[g] = flows[g] /\ emitted'[g] = emitted[g]
                  /\ segLog' = segLog
                  /\ timers500' = timers500
                  /\ handlers' = handlers
                  /\ DOMAIN rateLimiter' = DOMAIN rateLimiter \cup {key}
                  /\ \A k \in DOMAIN rateLimiter \ {key} :
                        rateLimiter'[k] = rateLimiter[k]
                  /\ rateLimiter'[key].count > RATE_LIMIT_MAX]_vars

\* C12 witness: a message event of a connection that is in a room was
\* rejected by the rate limiter
C12_Witness ==
    \E f \in Flows :
        /\ flows[f].pc = "rejected"
        /\ emitted[f] = <<sendError("Rate limit exceeded", 400)>>
        /\ flows[f].sock \in DOMAIN connections
        /\ connections[flows[f].sock].joinedChats # {}
        /\ messages = <<>>

\* the chat of an event in flight is not a chat of the connection's user
NotOwner(chatId, userId) == ~chatFound(chats, chatId, userId)

\* the step in which the access check of a typing, read_receipt or
\* chat_update event of socket s returns for a chat of another user
HandlerDeniedStep(s) ==
    /\ handlers[s].pc = "access"
    /\ NotOwner(handlers[s].chatId, handlers[s].userId)
    /\ handlers'[s] # handlers[s]

\* the same step of a message event (the lookup returned: the step ends in
\* the early return, not in the catch block)
MessageDeniedStep(f) ==
    /\ flows[f].pc = "accessCheck"
    /\ NotOwner(flows[f].chatId, flows[f].userId)
    /\ flows'[f].pc = "rejected"

\* the event is rejected with one error to its connection, nothing is
\* broadcast, and registry, rooms, rate-limit counters and the store are
\* unchanged by the rejecting step
DeniedStepFrame ==
    /\ connections' = connections
    /\ chatRooms' = chatRooms
    /\ rateLimiter' = rateLimiter
    /\ messages' = messages
    /\ chats' = chats
    /\ transport' = transport

HandlerDeniedRejected ==
    \A s \in Sockets :
        HandlerDeniedStep(s) =>
            /\ DeniedStepFrame
            /\ handlers'[s] = IdleHandler
            /\ Len(lastEmit') = 1
            /\ lastEmit'[1].to = s
            /\ lastEmit'[1].type = "error"
            /\ emitted' = emitted

MessageDeniedRejected ==
    \A f \in Flows :
        MessageDeniedStep(f) =>
            /\ DeniedStepFrame
            /\ Len(emitted'[f]) = 1
            /\ IsError(emitted'[f][1])
            /\ \A g \in Flows \ {f} : emitted'[g] = emitted[g]
            /\ handlers' = handlers

\* the message event of send f was rejected because its chat belongs to
\* another user
DeniedMessage(f) ==
    /\ flows[f].pc = "rejected"
    /\ emitted[f] = <<sendError("Access denied to chat", 400)>>

\* every message event handled so far was rejected for that reason
OnlyDeniedMessages ==
    /\ \E f \in Flows : DeniedMessage(f)
    /\ \A f \in Flows : flows[f].pc # "idle" => DeniedMessage(f)

\* C13 (as stated): a message, join, typing or read-receipt event for a chat
\* of another user is rejected with an error to that connection only,
\* nothing is broadcast, the connection stays registered and no state is
\* mutated: registry, rooms, rate-limit counters and the store are unchanged.
C13_DeniedChangesNothing ==
    /\ [][HandlerDeniedRejected /\ MessageDeniedRejected]_vars
    /\ [](OnlyDeniedMessages =>
             /\ rateLimiter = RoomRateLimiterInit
             /\ messages = <<>>
             /\ chats = RoomChatsInit)

\* the denied message events of a user
DeniedBy(userId) ==
    {f \in Flows : DeniedMessage(f) /\ flows[f].userId = userId}

\* C13 (amended): such an event is rejected with an error to that connection
\* only, nothing is broadcast, the connection stays registered, and registry,
\* rooms and the store are unchanged; a message event has by then been
\* counted by the rate limiter, so the sender's 'message' counter has grown
\* by one, while join, typing and read-receipt events touch no counter.
C13_DeniedChangesOnlyCounter ==
    /\ [][HandlerDeniedRejected /\ MessageDeniedRejected]_vars
    /\ [](OnlyDeniedMessages =>
             /\ messages = <<>>
             /\ chats = RoomChatsInit
             /\ \A k \in DOMAIN RoomRateLimiterInit :
                   rateLimiter[k] = RoomRateLimiterInit[k]
             /\ \A u \in UserStore :
                   (DeniedBy(u) # {}
                       /\ rateKey(u, "message") \notin DOMAIN RoomRateLimiterInit)
                     => rateLimiter[rateKey(u, "message")].count
                            = Cardinality(DeniedBy(u)))

\* C13 witness: a message event and a later room event were both rejected
\* for a chat of another user, while the chat's room has members
C13_Witness ==
    \E f \in Flows, s \in Sockets :
        /\ DeniedMessage(f)
        /\ rateLimiter # RoomRateLimiterInit
        /\ s \in DOMAIN connections
        /\ lastEmit = <<errorTo(s, "Access denied to chat", 400)>>
        /\ chatRooms # <<>>


(***************************************************************************)
(* ChatController and the ChatService it calls (specification HttpSpec)    *)
(***************************************************************************)
\* the REST sends of a run, numbered after the message events
Requests == MaxFlows + 1 .. MaxFlows + MaxRequests

\* POST /chats/:chatId/messages, POST /chats/:chatId/messages/stream and
\* POST /chats/:chatId/messages/multi
Routes == {"messages", "stream", "multi"}

\* req.user.id, set by JwtAuthGuard: a request reaches the controller only
\* with an authenticated user
HttpUsers == {1, 2}

\* what generatePersonaBasedResponse returns: one of the canned, non-empty
\* replies of the persona and keyword branch, picked with Math.random
RuleBasedReplies == {"fallback1", "fallback2"}

\* a REST send not yet received
IdleRequest ==
    [pc |-> "idle", route |-> "", userId |-> 0, chatId |-> "", content |-> "",
     agentId |-> "", chatCount |-> 0, historyLen |-> 0, failure |-> "",
     upstreamSegments |-> <<>>, primary |-> "", additional |-> <<>>,
     ai |-> NoAi, i |-> 0, fallback |-> FALSE, allowed |-> FALSE]

\* what the controller writes to the client: a frame of the event stream
\* (res.write), the JSON body it returns, or the exception it rethrows
httpOut(type, content, flag, messageIndex, totalMessages) ==
    [type |-> type, content |-> content, flag |-> flag,
     messageIndex |-> messageIndex, totalMessages |-> totalMessages,
     messages |-> <<>>, isMultiMessage |-> FALSE]

connectedFrame == httpOut("connected", "Stream connected", "", 0, 0)

completeFrame == httpOut("complete", "Stream complete", "", 0, 0)

errorFrame(message) == httpOut("error", message, "", 0, 0)

firstFrame(ai) ==
    httpOut("message", ai.content, "isFirst", 0, Len(ai.additionalMessages) + 1)

additionalFrame(ai, i) ==
    httpOut("message", ai.additionalMessages[i], "isAdditional", i + 1,
            Len(ai.additionalMessages) + 1)

singleFrame(ai) == httpOut("message", ai.content, "isSingle", 0, 0)

\* the body ChatController.sendMessage returns
controllerResponse(ai) ==
    IF ai.isMultiMessage
    THEN [httpOut("response", ai.content, "", 0, Len(ai.additionalMessages) + 1)
             EXCEPT !.messages = <<ai.content>> \o ai.additionalMessages,
                    !.isMultiMessage = TRUE]
    ELSE httpOut("response", ai.content, "", 0, 0)

\* mutant: totalMessages counts the additional messages only
multiResponseCountsAdditional(ai) ==
    [httpOut("response", ai.content, "", 0, Len(ai.additionalMessages))
        EXCEPT !.messages = <<ai.content>> \o ai.additionalMessages,
               !.isMultiMessage = ai.isMultiMessage]

\* the data of the body ChatController.sendMultiMessage returns
multiResponse(ai) ==
    IF ai.isMultiMessage /\ ai.additionalMessages # <<>>
    THEN [httpOut("response", ai.content, "", 0, Len(ai.additionalMessages) + 1)
             EXCEPT !.messages = <<ai.content>> \o ai.additionalMessages,
                    !.isMultiMessage = TRUE]
    ELSE [httpOut("response", ai.content, "", 0, 1)
             EXCEPT !.messages = <<ai.content>>]

\* the variables no step of a REST send reads or writes
restFrame ==
    <<now, rateLimiter, rlHistory, connections, segLog, timerVars, transport,
      roomVars>>

\* an exception reaches the catch block of the controller method:
\* streamMessages writes an error frame and ends the stream, sendMessage
\* rethrows
Fail(r, req, message) ==
    /\ flows' = [flows EXCEPT
                    ![r] = [req EXCEPT !.pc = "errored", !.failure = message]]
    /\ Emit(r, <<IF req.route = "stream" THEN errorFrame(message)
                 ELSE httpOut("exception", message, "", 0, 0)>>)

\* ChatController.sendMessage / streamMessages / sendMultiMessage up to the
\* call of chatService.sendMessage; sendMultiMessage checks the user only
controllerRequest(r, route, userId, chatId, content, agentId) ==
    LET req == [IdleRequest EXCEPT !.route = route, !.userId = userId,
                                   !.chatId = chatId, !.content = content,
                                   !.agentId = agentId]
    IN  /\ flows[r].pc = "idle"
        /\ IF route # "multi" /\ ~Truthy(chatId)
           THEN Fail(r, req, "Chat ID is required")
           ELSE IF route # "multi" /\ (~Truthy(content) \/ ~Truthy(agentId))
           THEN Fail(r, req, "Invalid message data: content and agentId are required")
           ELSE /\ flows' = [flows EXCEPT ![r] = [req EXCEPT !.pc = "rest_findChat"]]
                /\ Emit(r, IF route = "stream" THEN <<connectedFrame>> ELSE <<>>)
        /\ UNCHANGED <<restFrame, chats, messages>>

\* ChatService.sendMessage: prisma.chat.findFirst returns
restSendMessageFindChat(r, dbOk) ==
    LET req == flows[r]
    IN  /\ req.pc = "rest_findChat"
        /\ IF ~dbOk
           THEN Fail(r, req, "persistence")
           ELSE IF ~chatFound(chats, req.chatId, req.userId)
           THEN Fail(r, req, "Chat not found")
           ELSE /\ flows' = [flows EXCEPT
                                ![r].pc = "rest_createUser",
                                ![r].chatCount = chats[req.chatId].messageCount]
                /\ UNCHANGED emitted
        /\ UNCHANGED <<restFrame, chats, messages>>

\* ChatService.sendMessage: prisma.message.create of the user message
restSendMessageCreateUser(r, dbOk) ==
    LET req == flows[r]
    IN  /\ req.pc = "rest_createUser"
        /\ IF ~dbOk
           THEN /\ Fail(r, req, "persistence")
                /\ UNCHANGED messages
           ELSE /\ messages' = createMessage(messages, userMessageData(req, r))
                /\ flows' = [flows EXCEPT ![r].pc = "rest_updateChat"]
                /\ UNCHANGED emitted
        /\ UNCHANGED <<restFrame, chats>>

\* ChatService.sendMessage: prisma.chat.update; then generateAIResponse maps
\* the agent
restSendMessageUpdateChat(r, dbOk) ==
    LET req == flows[r]
    IN  /\ req.pc = "rest_updateChat"
        /\ IF ~dbOk
           THEN /\ Fail(r, req, "persistence")
                /\ UNCHANGED chats
           ELSE /\ chats' = updateChat(chats, req.chatId, req.content)
                /\ IF req.agentId \notin DOMAIN agentToPersonaMap
                   THEN Fail(r, req, "Invalid agent ID")
                   ELSE /\ flows' = [flows EXCEPT ![r].pc = "rest_findHistory"]
                        /\ UNCHANGED emitted
        /\ UNCHANGED <<restFrame, messages>>

\* generateAIResponse: prisma.message.findMany of the history
restGenerateAIResponseHistory(r, dbOk) ==
    LET req == flows[r]
    IN  /\ req.pc = "rest_findHistory"
        /\ IF ~dbOk
           THEN Fail(r, req, "persistence")
           ELSE /\ flows' = [flows EXCEPT
                                ![r].pc = "rest_fetch",
                                ![r].historyLen =
                                    Len(conversationHistory(messages, req.chatId))]
                /\ UNCHANGED emitted
        /\ UNCHANGED <<restFrame, chats, messages>>

\* mutant: an upstream failure is thrown to the caller
restGenerateMockAIResponseThrows(r, out, reply) ==
    LET req == flows[r]
    IN  /\ req.pc = "rest_fetch"
        /\ IF upstreamIsReply(out)
           THEN /\ flows' = [flows EXCEPT
                                ![r] = [req EXCEPT
                                           !.pc = "rest_createAssistant",
                                           !.upstreamSegments = upstreamSegments(out),
                                           !.primary = bridgePrimary(out),
                                           !.additional = bridgeAdditional(out)]]
                /\ UNCHANGED emitted
           ELSE Fail(r, [req EXCEPT !.fallback = TRUE], "upstream")
        /\ UNCHANGED <<restFrame, chats, messages>>

\* generateMockAIResponse: the one upstream attempt; whatever goes wrong is
\* caught and generatePersonaBasedResponse supplies the reply
restGenerateMockAIResponse(r, out, reply) ==
    LET req == flows[r]
    IN  /\ req.pc = "rest_fetch"
        /\ flows' = [flows EXCEPT
                        ![r] = IF upstreamIsReply(out)
                               THEN [req EXCEPT
                                        !.pc = "rest_createAssistant",
                                        !.upstreamSegments = upstreamSegments(out),
                                        !.primary = bridgePrimary(out),
                                        !.additional = bridgeAdditional(out)]
                               ELSE [req EXCEPT
                                        !.pc = "rest_createAssistant",
                                        !.fallback = TRUE,
                                        !.primary = reply]]
        /\ UNCHANGED <<restFrame, chats, messages, emitted>>

\* generateAIResponse: prisma.message.create of the primary reply
restGenerateAIResponseCreate(r, dbOk) ==
    LET req == flows[r]
        ms == createMessage(messages, assistantMessageData(req, r))
    IN  /\ req.pc = "rest_createAssistant"
        /\ IF ~dbOk
           THEN /\ Fail(r, req, "persistence")
                /\ UNCHANGED messages
           ELSE /\ messages' = ms
                /\ flows' = [flows EXCEPT
                                ![r].pc = "rest_updateChatReply",
                                ![r].ai = finalResponse(ms[Len(ms)])]
                /\ UNCHANGED emitted
        /\ UNCHANGED <<restFrame, chats>>

\* generateAIResponse: prisma.chat.update, the return to the controller and
\* what the controller writes before its next await
restGenerateAIResponseUpdateChat(r, dbOk) ==
    LET req == flows[r]
        ai == req.ai
    IN  /\ req.pc = "rest_updateChatReply"
        /\ IF ~dbOk
           THEN /\ Fail(r, req, "persistence")
                /\ UNCHANGED chats
           ELSE /\ chats' = updateChat(chats, req.chatId, req.primary)
                /\ IF req.route = "messages"
                   THEN /\ flows' = [flows EXCEPT ![r].pc = "done"]
                        /\ Emit(r, <<controllerResponse(ai)>>)
                   ELSE IF req.route = "multi"
                   THEN /\ flows' = [flows EXCEPT ![r].pc = "done"]
                        /\ Emit(r, <<multiResponse(ai)>>)
                   ELSE IF ai.isMultiMessage
                   THEN /\ flows' = [flows EXCEPT ![r].pc = "rest_streamAdditional"]
                        /\ Emit(r, <<firstFrame(ai)>>)
                   ELSE /\ flows' = [flows EXCEPT ![r].pc = "done"]
                        /\ Emit(r, <<singleFrame(ai), completeFrame>>)
        /\ UNCHANGED <<restFrame, messages>>

\* streamMessages: the 1-3 s delay before an additional frame is over; after
\* the last one the complete frame is written and the stream ended
streamMessagesAdditional(r) ==
    LET req == flows[r]
        i == req.i + 1
    IN  /\ req.pc = "rest_streamAdditional"
        /\ flows' = [flows EXCEPT
                        ![r].i = i,
                        ![r].pc = IF i = Len(req.ai.additionalMessages)
                                  THEN "done" ELSE "rest_streamAdditional"]
        /\ Emit(r, IF i = Len(req.ai.additionalMessages)
                   THEN <<additionalFrame(req.ai, i), completeFrame>>
                   ELSE <<additionalFrame(req.ai, i)>>)
        /\ UNCHANGED <<restFrame, chats, messages>>

\* the message events handled beside the REST sends
HttpFlows == {1}

HttpInit ==
    /\ now = 0
    /\ rateLimiter \in RateLimiterInits
    /\ rlLast = NoCall
    /\ rlWindow = <<>>
    /\ rlRecent = <<>>
    /\ connections = <<>>
    /\ chats = ChatsInit
    /\ messages = <<>>
    /\ flows = [f \in Flows \cup Requests |->
                   IF f \in Flows THEN IdleFlow ELSE IdleRequest]
    /\ emitted = [f \in Flows \cup Requests |-> <<>>]
    /\ segLog = [s \in Sockets |-> <<>>]
    /\ timers500 = <<>>
    /\ timerCount = 0
    /\ transport = [s \in Sockets |-> "new"]
    /\ conn = [s \in Sockets |-> IdleConn]
    /\ chatRooms = <<>>
    /\ handlers = [s \in Sockets |-> IdleHandler]
    /\ lastEmit = <<>>

HttpNext ==
    \/ \E r \in Requests, route \in Routes, userId \in HttpUsers,
          chatId \in ChatIdInputs, content \in ContentInputs,
          agentId \in AgentInputs :
          controllerRequest(r, route, userId, chatId, content, agentId)
    \/ \E r \in Requests, dbOk \in BOOLEAN : restSendMessageFindChat(r, dbOk)
    \/ \E r \in Requests, dbOk \in BOOLEAN : restSendMessageCreateUser(r, dbOk)
    \/ \E r \in Requests, dbOk \in BOOLEAN : restSendMessageUpdateChat(r, dbOk)
    \/ \E r \in Requests, dbOk \in BOOLEAN : restGenerateAIResponseHistory(r, dbOk)
    \/ \E r \in Requests, out \in UpstreamOutcomes, reply \in RuleBasedReplies :
          restGenerateMockAIResponse(r, out, reply)
    \/ \E r \in Requests, dbOk \in BOOLEAN : restGenerateAIResponseCreate(r, dbOk)
    \/ \E r \in Requests, dbOk \in BOOLEAN : restGenerateAIResponseUpdateChat(r, dbOk)
    \/ \E r \in Requests : streamMessagesAdditional(r)
    \/ \E s \in Sockets : addConnection(s)
    \/ \E f \in HttpFlows, s \in Sockets, chatId \in ChatIdInputs,
          content \in ContentInputs, agentId \in AgentInputs :
          handleMessage(f, s, chatId, content, agentId)
    \/ \E f \in HttpFlows, dbOk \in BOOLEAN : accessCheck(f, dbOk)
    \/ \E f \in HttpFlows, dbOk \in BOOLEAN : sendMessageFindChat(f, dbOk)
    \/ \E f \in HttpFlows, dbOk \in BOOLEAN : sendMessageCreateUser(f, dbOk)
    \/ \E f \in HttpFlows, dbOk \in BOOLEAN : sendMessageUpdateChat(f, dbOk)
    \/ \E f \in HttpFlows, dbOk \in BOOLEAN : generateAIResponseHistory(f, dbOk)
    \/ \E f \in HttpFlows, out \in UpstreamOutcomes : generateMockAIResponse(f, out)
    \/ \E f \in HttpFlows, dbOk \in BOOLEAN : generateAIResponseCreate(f, dbOk)
    \/ \E f \in HttpFlows, dbOk \in BOOLEAN : generateAIResponseUpdateChat(f, dbOk)
    \/ \E f \in HttpFlows, dbOk \in BOOLEAN : confirmUserMessage(f, dbOk)
    \/ \E f \in HttpFlows : emitPrimary(f)
    \/ \E f \in HttpFlows : additionalTyping(f)
    \/ \E f \in HttpFlows : additionalMessage(f)

HttpSpec == HttpInit /\ [][HttpNext]_vars

(***************************************************************************)
(* Rate limiting of sends on every transport (specification HttpSpec)      *)
(***************************************************************************)
\* C14: no user message is persisted by a send unless the rate-limit check
\* for the category 'message' passed for the sending user, on whichever
\* transport the send arrived (as stated; the REST sends make no check)
C14_PersistRequiresRateLimit ==
    \A k \in 1 .. Len(messages) :
        messages[k].role = "user" => flows[messages[k].send].allowed


(***************************************************************************)
(* Validation of the agent id (specification Spec)                         *)
(***************************************************************************)
\* a message event whose agent id is non-empty and not one of the four
\* known agents
UnknownAgent(f) ==
    /\ flows[f].pc # "idle"
    /\ Truthy(flows[f].agentId)
    /\ flows[f].agentId \notin DOMAIN agentToPersonaMap

\* C15: a send whose agent id is non-empty but not one of therapist,
\* dietician, career, priya is rejected during validation: no echo and no
\* typing event is emitted, the user message is not persisted and the
\* message counter of the chat is not changed (as stated)
C15_UnknownAgentRejectedInValidation ==
    /\ \A f \in Flows :
          UnknownAgent(f) =>
              /\ \A k \in 1 .. Len(emitted[f]) :
                    /\ ~(emitted[f][k].type = "message" /\ emitted[f][k].role = "user")
                    /\ emitted[f][k].type # "typing"
              /\ UserPersisted(f) = {}
    /\ (\A f \in Flows : flows[f].pc = "idle" \/ UnknownAgent(f)) =>
           \A c \in ChatIds : chats[c].messageCount = ChatsInit[c].messageCount


(***************************************************************************)
(* Authentication of connections (specification ConnSpec)                  *)
(***************************************************************************)
\* the refusals for a missing credential, a token that does not decode (or
\* carries no sub) and a user that is not in the store
AuthRefusals ==
    {"Authentication token required", "Invalid authentication token",
     "User not found"}

\* C16: the registry holds only connections whose token resolved to a user
\* of the user store; a connection attempt refused for a missing credential,
\* an undecodable token or an unknown user got one error event, is
\* disconnected and is not in the registry
C16_RegistryOnlyKnownUsers ==
    /\ \A s \in DOMAIN connections : connections[s].userId \in UserStore
    /\ \A s \in Sockets :
          conn[s].refusal \in AuthRefusals =>
              /\ conn[s].errors = 1
              /\ transport[s] = "closed"
              /\ s \notin DOMAIN connections

\* one socket is registered, the other was refused because its user does not
\* exist
C16_Witness ==
    \E s, t \in Sockets :
        /\ s \in DOMAIN connections
        /\ conn[s].pc = "connected"
        /\ conn[t].refusal = "User not found"
        /\ conn[t].gone

\* C17: a connection is registered only if its token is valid (signed by the
\* service and unexpired), not merely decodable (as stated; the gateway
\* decodes the token without verifying it)
C17_RegisteredOnlyIfValidated ==
    \A s \in DOMAIN connections : conn[s].valid


(***************************************************************************)
(* Properties of the registry and the rooms (specification RoomSpec)       *)
(***************************************************************************)
\* the members of a room, none when the room does not exist
Members(rooms, r) == IF r \in DOMAIN rooms THEN rooms[r] ELSE {}

\* the step in which removeConnection(s) removes a registered connection
RemovedStep(s) == s \in DOMAIN connections /\ s \notin DOMAIN connections'

\* C18: after removeConnection(c) of a registered connection c, c is absent
\* from the registry and from every room, every room whose only member was c
\* no longer exists, and the rooms with other members keep exactly their
\* other members
C18_RemoveConnectionCleansUp ==
    [][\A s \in Sockets :
          RemovedStep(s) =>
              /\ \A r \in DOMAIN chatRooms' : s \notin chatRooms'[r]
              /\ \A r \in DOMAIN chatRooms :
                    IF chatRooms[r] \subseteq {s}
                    THEN r \notin DOMAIN chatRooms'
                    ELSE /\ r \in DOMAIN chatRooms'
                         /\ chatRooms'[r] = chatRooms[r] \ {s}
              /\ DOMAIN chatRooms' \subseteq DOMAIN chatRooms
              /\ DOMAIN connections' = DOMAIN connections \ {s}
              /\ \A c \in DOMAIN connections' : connections'[c] = connections[c]]_vars

\* a connection that had joined both rooms was removed: the room it was alone
\* in is gone, the room it shared keeps the other member
C18_Witness ==
    \E s, t \in Sockets :
        /\ s # t
        /\ conn[s].gone
        /\ conn[s].hadJoined = RoomChatIds
        /\ s \notin DOMAIN connections
        /\ DOMAIN chatRooms = {"chatA"}
        /\ chatRooms["chatA"] = {t}

\* the step in which a handler of socket s calls broadcastToChat: handleTyping
\* after its access check, handleReadReceipt after markMessagesAsRead
BroadcastStep(s) ==
    /\ \/ handlers[s].pc = "access" /\ handlers[s].kind = "typing"
       \/ handlers[s].pc = "markUpdate"
    /\ handlers'[s].pc = "idle"
    /\ \A k \in 1 .. Len(lastEmit') : lastEmit'[k].type # "error"

\* the members of a room that are registered and have an open transport
OpenMembers(r) ==
    {c \in Members(chatRooms, r) :
        c \in DOMAIN connections /\ transport[c] = "open"}

\* C19: broadcastToChat(room, event) delivers the event, once, to exactly the
\* connections that are members of the room at that moment, are registered
\* and have an open transport; it changes neither the registry nor the rooms,
\* so that a member with a closed transport is skipped and stays a member
C19_BroadcastToOpenMembers ==
    [][\A s \in Sockets :
          BroadcastStep(s) =>
              /\ {lastEmit'[k].to : k \in 1 .. Len(lastEmit')}
                     = OpenMembers(handlers[s].chatId)
              /\ Len(lastEmit') = Cardinality(OpenMembers(handlers[s].chatId))
              /\ \A k \in 1 .. Len(lastEmit') :
                    /\ lastEmit'[k].type = handlers[s].kind
                    /\ lastEmit'[k].chatId = handlers[s].chatId
              /\ connections' = connections
              /\ chatRooms' = chatRooms]_vars

\* a typing event was broadcast to one member of a room while the other
\* member, still registered and still in the room, has a closed transport
C19_Witness ==
    \E s, t \in Sockets, r \in RoomChatIds :
        /\ s # t
        /\ Len(lastEmit) = 1
        /\ lastEmit[1].type = "typing"
        /\ lastEmit[1].to = s
        /\ lastEmit[1].chatId = r
        /\ Members(chatRooms, r) = {s, t}
        /\ t \in DOMAIN connections
        /\ r \in connections[t].joinedChats
        /\ transport[t] = "closed"

\* C20: the room map holds no room without members, and membership is
\* symmetric: c is a member of room r exactly if c is registered and r is in
\* the joinedChats of c
C20_RoomsSymmetricNonEmpty ==
    /\ \A r \in DOMAIN chatRooms : chatRooms[r] # {}
    /\ \A c \in Sockets, r \in RoomChatIds :
          c \in Members(chatRooms, r)
              <=> (c \in DOMAIN connections /\ r \in connections[c].joinedChats)

\* after connects, joins, a leave or disconnect: one connection is gone that
\* had joined chatA, the other is a member of chatB alone, and chatA, left
\* empty, does not exist
C20_Witness ==
    \E s, t \in Sockets :
        /\ s # t
        /\ conn[s].gone
        /\ "chatA" \in conn[s].hadJoined
        /\ t \in DOMAIN connections
        /\ connections[t].joinedChats = {"chatB"}
        /\ DOMAIN chatRooms = {"chatB"}
        /\ chatRooms["chatB"] = {t}


(***************************************************************************)
(* All four socket events together (specification EventSpec)               *)
(***************************************************************************)
\* the message events handled beside the typing, read_receipt and
\* chat_update events
EventFlows == {1}

EventNext ==
    \/ \E s \in Sockets : addConnection(s)
    \/ \E f \in EventFlows, s \in Sockets, chatId \in ChatIdInputs,
          content \in ContentInputs, agentId \in AgentInputs :
          handleMessage(f, s, chatId, content, agentId)
    \/ \E f \in EventFlows, dbOk \in BOOLEAN : accessCheck(f, dbOk)
    \/ \E f \in EventFlows, dbOk \in BOOLEAN : sendMessageFindChat(f, dbOk)
    \/ \E f \in EventFlows, dbOk \in BOOLEAN : sendMessageCreateUser(f, dbOk)
    \/ \E f \in EventFlows, dbOk \in BOOLEAN : sendMessageUpdateChat(f, dbOk)
    \/ \E f \in EventFlows, dbOk \in BOOLEAN : generateAIResponseHistory(f, dbOk)
    \/ \E f \in EventFlows, out \in UpstreamOutcomes : generateMockAIResponse(f, out)
    \/ \E f \in EventFlows, dbOk \in BOOLEAN : generateAIResponseCreate(f, dbOk)
    \/ \E f \in EventFlows, dbOk \in BOOLEAN : generateAIResponseUpdateChat(f, dbOk)
    \/ \E f \in EventFlows, dbOk \in BOOLEAN : confirmUserMessage(f, dbOk)
    \/ \E f \in EventFlows : emitPrimary(f)
    \/ \E f \in EventFlows : additionalTyping(f)
    \/ \E f \in EventFlows : additionalMessage(f)
    \/ \E s \in Sockets, p \in TypingPayloads :
          handleTyping(s, p.chatId, p.agentId, p.isTyping)
    \/ \E s \in Sockets, dbOk \in BOOLEAN : handleTypingAccess(s, dbOk)
    \/ \E s \in Sockets, p \in ReadReceiptPayloads :
          handleReadReceipt(s, p.chatId, p.messageIds)
    \/ \E s \in Sockets, dbOk \in BOOLEAN : handleReadReceiptAccess(s, dbOk)
    \/ \E s \in Sockets, dbOk \in BOOLEAN : markMessagesAsReadFind(s, dbOk)
    \/ \E s \in Sockets, updated \in SUBSET MessageIds.ids :
          markMessagesAsReadUpdate(s, updated)
    \/ \E s \in Sockets, p \in ChatUpdatePayloads :
          handleChatUpdate(s, p.action, p.chatId)
    \/ \E s \in Sockets, dbOk \in BOOLEAN : handleChatUpdateAccess(s, dbOk)

EventSpec == Init /\ [][EventNext]_vars

\* a message event got its completion sequence or one error event, not both
MessageOutcomeExclusive(f) ==
    /\ Cardinality(ErrorsAt(f)) <= 1
    /\ ErrorsAt(f) # {} => AssistantAt(f) = {} /\ ConfirmedAt(f) = {}
    /\ flows[f].pc \in {"errored", "rejected"} => Cardinality(ErrorsAt(f)) = 1
    /\ flows[f].pc = "done" =>
           /\ ErrorsAt(f) = {}
           /\ \E k \in AssistantAt(f) : IsPrimary(emitted[f][k])

\* the error events among the events of the step
StepErrors == {k \in 1 .. Len(lastEmit') : lastEmit'[k].type = "error"}

\* a step of a typing, read_receipt or chat_update handler emits one error
\* event and nothing else, or no error event; a handler that suspends emits
\* nothing, and the error of a handler that was suspended goes to its socket
HandlerOutcomeExclusive ==
    /\ lastEmit' # lastEmit =>
           /\ Cardinality(StepErrors) <= 1
           /\ StepErrors # {} =>
                  /\ Len(lastEmit') = 1
                  /\ transport[lastEmit'[1].to] = "open"
                  /\ handlers'[lastEmit'[1].to].pc = "idle"
    /\ \A s \in Sockets :
          /\ handlers'[s].pc # "idle" /\ handlers'[s] # handlers[s] =>
                 lastEmit' = <<>>
          /\ handlers[s].pc # "idle" /\ handlers'[s].pc = "idle"
                 /\ StepErrors # {} => lastEmit'[1].to = s

\* C21: for every inbound socket action (message, typing, read_receipt,
\* chat_update) the originating client receives either the completion
\* sequence of the action or exactly one error event, never both and never
\* more than one error event, and the error goes to the originating
\* connection only
C21_CompletionOrOneError ==
    /\ [](\A f \in EventFlows : MessageOutcomeExclusive(f))
    /\ [][HandlerOutcomeExclusive]_vars

\* a message event ended in its one error after the echo, and the last
\* handler step refused a chat_update with one error to its socket
C21_Witness ==
    /\ flows[1].pc = "errored"
    /\ flows[1].failure = "upstream"
    /\ Cardinality(ErrorsAt(1)) = 1
    /\ Len(lastEmit) = 1
    /\ lastEmit[1].type = "error"
    /\ lastEmit[1].message = "Access denied to chat"


(***************************************************************************)
(* Failures of sendMessage before the upstream call (specification Spec)   *)
(***************************************************************************)
\* the upstream service was called for send f
UpstreamCalled(f) == flows[f].attempt >= 1

\* generateAIResponse returned for send f
ReplyStored(f) ==
    flows[f].pc \in {"findUserMessage", "timerPrimary", "segDelay",
                     "segTyping", "done"}

\* the step in which the create of the user message or the update of the
\* chat's counter fails in sendMessage of send f
PersistUserFailedStep(f) ==
    /\ flows[f].pc \in {"sm_createUser", "sm_updateChat"}
    /\ flows'[f].pc = "errored"
    /\ flows'[f].failure = "persistence"

\* C22: if persisting the user message or updating the conversation counter
\* fails in sendMessage, the upstream service is never called for that send
\* and no assistant message is persisted: the failing step ends the send
\* with no call made, an ended send makes no further step, and a send for
\* which the upstream service was called has its user message persisted and
\* its counter update done
C22_NoUpstreamAfterPersistFailure ==
    /\ [][\A f \in Flows :
             /\ PersistUserFailedStep(f) =>
                    /\ ~UpstreamCalled(f)
                    /\ flows'[f].attempt = 0
                    /\ \A k \in 1 .. Len(messages') :
                          ~(messages'[k].role = "assistant" /\ messages'[k].send = f)
             /\ flows[f].pc = "errored" =>
                    /\ flows'[f] = flows[f]
                    /\ \A k \in 1 .. Len(messages') :
                          messages'[k].role = "assistant" /\ messages'[k].send = f
                              => k <= Len(messages)]_vars
    /\ [](\A f \in Flows :
             /\ UpstreamCalled(f) \/ AssistantPersisted(f) # {} =>
                    UserPersisted(f) # {}
             /\ \A k \in AssistantPersisted(f) :
                    \E j \in UserPersisted(f) : j < k)
    /\ [](\A c \in ChatIds :
             chats[c].messageCount >=
                 Cardinality({f \in Flows : flows[f].chatId = c /\ UpstreamCalled(f)})
                 + Cardinality({f \in Flows : flows[f].chatId = c /\ ReplyStored(f)}))

\* the update of the counter failed after the user message was persisted:
\* the send ended without an upstream call and without an assistant message
C22_Witness ==
    \E f \in Flows :
        /\ flows[f].pc = "errored"
        /\ flows[f].failure = "persistence"
        /\ UserPersisted(f) # {}
        /\ chats[flows[f].chatId].messageCount = 0
        /\ ~UpstreamCalled(f)
        /\ AssistantPersisted(f) = {}


(***************************************************************************)
(* The history sent upstream (specification HistorySpec)                   *)
(***************************************************************************)
maxContextMessages == 6

\* String.prototype.trim on the contents of the model
trim(c) == IF c \in {" ", "  "} THEN "" ELSE c

\* the text of the send generateAIResponse is called for
UserTexts == {"Hello", "  "}

\* a row of the message store
storedRow(k, chatId, role, content) ==
    [id |-> <<"msg", k>>, chatId |-> chatId, userId |-> 1,
     agentId |-> "therapist", content |-> content, role |-> role,
     messageIndex |-> k, totalMessages |-> k, read |-> FALSE,
     isMultiMessage |-> FALSE, additionalMessages |-> <<>>, send |-> 0]

\* a store of n rows in creation order when generateAIResponse is called:
\* the last row is the user message sendMessage just created, row empty has
\* no content, row blank is whitespace, row other belongs to another chat
\* (0: no such row)
storeOf(n, empty, blank, other, userMessage) ==
    [k \in 1 .. n |->
        IF k = n THEN storedRow(k, "chatA", "user", userMessage)
        ELSE storedRow(k,
                       IF k = other THEN "chatB" ELSE "chatA",
                       IF k % 2 = n % 2 THEN "user" ELSE "assistant",
                       IF k = empty THEN "" ELSE IF k = blank THEN "  "
                       ELSE "text")]

\* the locals of one call of generateAIResponse / generateMockAIResponse
IdleHistory ==
    [pc |-> "h_find", chatId |-> "chatA", content |-> "",
     conversationHistory |-> <<>>, messages |-> <<>>, limitedMessages |-> <<>>]

\* mutant: rows without content are kept in the context
contextMessagesUnfiltered(history, userMessage) ==
    [k \in 1 .. Len(history) |->
        [role |-> history[k].role, content |-> history[k].content]]
    \o <<[role |-> "user", content |-> userMessage]>>

\* generateAIResponse: conversationHistory.filter(content && content.trim()
\* .length > 0).map({role, content}), then push of the current user message
contextMessages(history, userMessage) ==
    LET kept == SelectSeq(history,
                          LAMBDA m : Truthy(m.content) /\ trim(m.content) # "")
    IN  [k \in 1 .. Len(kept) |->
            [role |-> kept[k].role, content |-> kept[k].content]]
        \o <<[role |-> "user", content |-> userMessage]>>

\* generateMockAIResponse: messages.slice(-maxContextMessages)
limitedMessages(ms) ==
    SubSeq(ms,
           IF Len(ms) > maxContextMessages THEN Len(ms) - maxContextMessages + 1
           ELSE 1,
           Len(ms))

\* the calls of generateAIResponse of a run
HistoryCalls == {1}

historyFrame ==
    <<now, rateLimiter, rlHistory, connections, chats, messages, emitted,
      segLog, timerVars, transport, roomVars>>

\* generateAIResponse: prisma.message.findMany returns or throws
historyFindMany(f, dbOk) ==
    /\ flows[f].pc = "h_find"
    /\ flows' = [flows EXCEPT
                    ![f] = IF dbOk
                           THEN [flows[f] EXCEPT
                                    !.pc = "h_context",
                                    !.conversationHistory =
                                        conversationHistory(messages,
                                                            flows[f].chatId)]
                           ELSE [flows[f] EXCEPT !.pc = "errored"]]
    /\ UNCHANGED historyFrame

\* generateAIResponse: the context is built and generateMockAIResponse called
historyContext(f) ==
    /\ flows[f].pc = "h_context"
    /\ flows' = [flows EXCEPT
                    ![f].pc = "h_limit",
                    ![f].messages =
                        contextMessages(flows[f].conversationHistory,
                                        flows[f].content)]
    /\ UNCHANGED historyFrame

\* generateMockAIResponse: the context is cut for the request body
historyLimit(f) ==
    /\ flows[f].pc = "h_limit"
    /\ flows' = [flows EXCEPT
                    ![f].pc = "h_request",
                    ![f].limitedMessages = limitedMessages(flows[f].messages)]
    /\ UNCHANGED historyFrame

HistoryInit ==
    /\ now = 0
    /\ rateLimiter = <<>>
    /\ rlLast = NoCall
    /\ rlWindow = <<>>
    /\ rlRecent = <<>>
    /\ connections = <<>>
    /\ chats = RoomChatsInit
    /\ \E n \in 1 .. MaxStored, userMessage \in UserTexts :
          \E empty \in 0 .. n - 1, blank \in 0 .. n - 1, other \in {0, 1, n - 1} :
              /\ messages = storeOf(n, empty, blank, other, userMessage)
              /\ flows = [f \in HistoryCalls |->
                             [IdleHistory EXCEPT !.content = userMessage]]
    /\ emitted = [f \in HistoryCalls |-> <<>>]
    /\ segLog = [s \in Sockets |-> <<>>]
    /\ timers500 = <<>>
    /\ timerCount = 0
    /\ transport = [s \in Sockets |-> "new"]
    /\ conn = [s \in Sockets |-> IdleConn]
    /\ chatRooms = <<>>
    /\ handlers = [s \in Sockets |-> IdleHandler]
    /\ lastEmit = <<>>

HistoryNext ==
    \/ \E f \in HistoryCalls, dbOk \in BOOLEAN : historyFindMany(f, dbOk)
    \/ \E f \in HistoryCalls : historyContext(f)
    \/ \E f \in HistoryCalls : historyLimit(f)

HistorySpec == HistoryInit /\ [][HistoryNext]_vars

\* the rows of the chat of call f, oldest first
RowsOfChat(f) == SelectSeq(messages, LAMBDA m : m.chatId = flows[f].chatId)

\* C23: the conversation history used to build the upstream context is the
\* most recent messages of the conversation, at most 20, oldest first: for a
\* conversation of more than 20 messages the latest 20 (as stated; findMany
\* with orderBy asc and take 20 returns the earliest 20)
C23_HistoryIsLatestWindow ==
    \A f \in HistoryCalls :
        flows[f].pc \in {"h_context", "h_limit", "h_request"} =>
            LET rows == RowsOfChat(f)
                n == Len(rows)
            IN  flows[f].conversationHistory =
                    SubSeq(rows, IF n > HISTORY_TAKE THEN n - HISTORY_TAKE + 1 ELSE 1, n)

\* C24: the conversation_history sent upstream has at most 6 entries, none
\* of the entries taken from the store is empty or whitespace-only, and its
\* last entry is the new user text with role user
C24_LimitedHistoryWellFormed ==
    \A f \in HistoryCalls :
        flows[f].pc = "h_request" =>
            LET sent == flows[f].limitedMessages
            IN  /\ Len(sent) >= 1
                /\ Len(sent) <= maxContextMessages
                /\ sent[Len(sent)] = [role |-> "user", content |-> flows[f].content]
                /\ \A k \in 1 .. Len(sent) - 1 :
                      sent[k].content # "" /\ trim(sent[k].content) # ""

\* six entries are sent although the history read from the store held an
\* empty and a whitespace-only row
C24_Witness ==
    \E f \in HistoryCalls :
        /\ flows[f].pc = "h_request"
        /\ Len(flows[f].limitedMessages) = maxContextMessages
        /\ \E j, k \in 1 .. Len(flows[f].conversationHistory) :
              /\ flows[f].conversationHistory[j].content = ""
              /\ flows[f].conversationHistory[k].content = "  "


(***************************************************************************)
(* The upstream client in detail (specification UpstreamSpec)              *)
(***************************************************************************)
\* what fetch does in one attempt: it throws (network error, or the abort of
\* AbortSignal.timeout), or it returns a response with a status
FetchOutcomes ==
    {[kind |-> "throw", error |-> e, ok |-> FALSE] : e \in {"fetch failed", "timeout"}}
    \cup {[kind |-> "response", error |-> "", ok |-> ok] : ok \in BOOLEAN}

\* the reply lists of a response body; a list may hold empty strings
BodyLists ==
    {<<>>, <<"">>, <<"r1">>, <<"r1", "r2">>, <<"", "r2">>, <<"r1", "", "r3">>}

\* what response.json() yields: it rejects (parses is false), or a body
\* (kind "data" as for the outcomes of the send-flows)
ResponseBodies ==
    {[kind |-> "data", parses |-> FALSE, success |-> FALSE, messages |-> <<>>,
      response |-> ""]}
    \cup {[kind |-> "data", parses |-> TRUE, success |-> ok, messages |-> ms,
           response |-> r] :
             ok \in BOOLEAN, ms \in BodyLists, r \in {"", "r1"}}

NoBody ==
    [kind |-> "", parses |-> FALSE, success |-> FALSE, messages |-> <<>>,
     response |-> ""]

\* the locals of one call of generateMockAIResponse and of the normalisation
\* in generateAIResponse (log: what each attempt's fetch did; surfaced: the
\* message of the error the call threw)
IdleCall ==
    [pc |-> "u_fetch", attempt |-> 1, lastError |-> "", log |-> <<>>,
     body |-> NoBody, surfaced |-> "", primary |-> "", additional |-> <<>>,
     isMultiMessage |-> FALSE]

\* the calls of generateMockAIResponse of a run
UpstreamCalls == {1, 2}

upstreamFrame ==
    <<now, rateLimiter, rlHistory, connections, chats, messages, emitted,
      segLog, timerVars, transport, roomVars>>

\* mutant: the error of the first failed attempt is thrown
thrownFirstError(call, error) ==
    IF call.lastError # "" THEN call.lastError ELSE error

\* throw lastError: the error of the attempt that just failed
thrownLastError(call, error) == error

\* the call throws: the outer catch rethrows with the message of the error
upstreamThrows(call, message) ==
    [call EXCEPT !.pc = "u_failed", !.surfaced = message]

\* generateMockAIResponse: one pass of the retry loop, and the status check
\* when fetch returned
upstreamFetch(f, out) ==
    LET call == [flows[f] EXCEPT !.log = Append(@, out)]
    IN  /\ flows[f].pc = "u_fetch"
        /\ flows' = [flows EXCEPT
                        ![f] = IF out.kind = "throw"
                               THEN IF call.attempt = maxRetries
                                    THEN upstreamThrows(
                                             [call EXCEPT !.lastError = out.error],
                                             thrownLastError(call, out.error))
                                    ELSE [call EXCEPT !.pc = "u_wait",
                                                      !.lastError = out.error]
                               ELSE IF ~out.ok
                               THEN upstreamThrows(call, "HTTP error")
                               ELSE [call EXCEPT !.pc = "u_json"]]
        /\ UNCHANGED upstreamFrame

\* the 2 s delay before the retry is over
upstreamRetry(f) ==
    /\ flows[f].pc = "u_wait"
    /\ flows' = [flows EXCEPT ![f].pc = "u_fetch", ![f].attempt = @ + 1]
    /\ UNCHANGED upstreamFrame

\* mutant: the last string of the list is taken as the primary reply
bridgePrimaryLast(out) ==
    IF Len(out.messages) > 0
    THEN (IF Truthy(out.messages[Len(out.messages)])
          THEN out.messages[Len(out.messages)] ELSE "Hello!")
    ELSE out.response

\* generateAIResponse: primaryResponse, as bridgePrimary
normalizedPrimary(out) == bridgePrimary(out)

\* response.json() settles; the body is examined and, when it is a reply,
\* normalised by generateAIResponse
upstreamJson(f, body) ==
    LET call == [flows[f] EXCEPT !.body = body]
    IN  /\ flows[f].pc = "u_json"
        /\ flows' = [flows EXCEPT
                        ![f] = IF ~body.parses
                               THEN upstreamThrows(call, "invalid json")
                               ELSE IF ~body.success
                               THEN upstreamThrows(call, "No response from AI service")
                               ELSE IF ~upstreamIsReply(body)
                               THEN upstreamThrows(call, "No valid response from AI service")
                               ELSE [call EXCEPT
                                        !.pc = "u_done",
                                        !.primary = normalizedPrimary(body),
                                        !.additional = bridgeAdditional(body),
                                        !.isMultiMessage = Len(body.messages) > 1]]
        /\ UNCHANGED upstreamFrame

UpstreamInit ==
    /\ now = 0
    /\ rateLimiter = <<>>
    /\ rlLast = NoCall
    /\ rlWindow = <<>>
    /\ rlRecent = <<>>
    /\ connections = <<>>
    /\ chats = ChatsInit
    /\ messages = <<>>
    /\ flows = [f \in UpstreamCalls |-> IdleCall]
    /\ emitted = [f \in UpstreamCalls |-> <<>>]
    /\ segLog = [s \in Sockets |-> <<>>]
    /\ timers500 = <<>>
    /\ timerCount = 0
    /\ transport = [s \in Sockets |-> "new"]
    /\ conn = [s \in Sockets |-> IdleConn]
    /\ chatRooms = <<>>
    /\ handlers = [s \in Sockets |-> IdleHandler]
    /\ lastEmit = <<>>

UpstreamNext ==
    \/ \E f \in UpstreamCalls, out \in FetchOutcomes : upstreamFetch(f, out)
    \/ \E f \in UpstreamCalls : upstreamRetry(f)
    \/ \E f \in UpstreamCalls, body \in ResponseBodies : upstreamJson(f, body)

UpstreamSpec == UpstreamInit /\ [][UpstreamNext]_vars

\* the attempts of a call made so far, and whether the call can make more
AttemptsMade(f) == Len(flows[f].log)

\* at most 2 attempts, the second only after the first failed, and a failed
\* call surfaces the failure of the last attempt made
AttemptsBounded(f) ==
    LET call == flows[f]
        n == AttemptsMade(f)
    IN  /\ n <= maxRetries
        /\ \A k \in 1 .. n - 1 : call.log[k].kind = "throw"
        /\ call.pc = "u_failed" =>
               /\ n >= 1
               /\ call.log[n].kind = "throw" => call.surfaced = call.log[n].error
               /\ call.log[n].kind = "response" =>
                      call.surfaced \in {"HTTP error", "invalid json",
                                         "No response from AI service",
                                         "No valid response from AI service"}

\* C25: the upstream client makes at most 2 attempts per call, the second
\* only after the first failed, a failed call surfaces the failure of the
\* last attempt made, and no failure is surfaced while a second attempt
\* remains (as stated)
C25_AllFailuresRetried ==
    \A f \in UpstreamCalls :
        /\ AttemptsBounded(f)
        /\ flows[f].pc = "u_failed" => AttemptsMade(f) = maxRetries

\* C25, amended: ... a failure of fetch itself (network error, timeout) is
\* not surfaced while a second attempt remains; a response that is a
\* failure (status not 2xx, unreadable body, success false, no content)
\* ends the call at once, whichever attempt returned it
C25_OnlyFetchFailuresRetried ==
    \A f \in UpstreamCalls :
        /\ AttemptsBounded(f)
        /\ flows[f].pc = "u_failed" /\ AttemptsMade(f) < maxRetries =>
               flows[f].log[AttemptsMade(f)].kind = "response"
        /\ flows[f].pc = "u_wait" =>
               AttemptsMade(f) < maxRetries /\ flows[f].log[AttemptsMade(f)].kind = "throw"

\* one call failed with the error of its second attempt after a different
\* error of the first, the other failed on the response to its first attempt
C25_Witness ==
    \E f, g \in UpstreamCalls :
        /\ flows[f].pc = "u_failed"
        /\ AttemptsMade(f) = 2
        /\ flows[f].log[1].error = "fetch failed"
        /\ flows[f].surfaced = "timeout"
        /\ flows[g].pc = "u_failed"
        /\ AttemptsMade(g) = 1
        /\ flows[g].surfaced = "HTTP error"

\* the outcome of a call whose response body was read
Normalized(f, primary) ==
    LET call == flows[f]
        b == call.body
        k == Len(b.messages)
    IN  b.parses /\ b.success =>
            IF k >= 1
            THEN /\ call.pc = "u_done"
                 /\ call.primary = primary
                 /\ call.additional = SubSeq(b.messages, 2, k)
                 /\ call.isMultiMessage = (k > 1)
            ELSE IF b.response # ""
            THEN /\ call.pc = "u_done"
                 /\ call.primary = b.response
                 /\ call.additional = <<>>
                 /\ ~call.isMultiMessage
            ELSE call.pc = "u_failed"

UpstreamFailed(r) == flows[r].fallback

\* C27: in the ChatService of the REST sends an upstream failure of any kind
\* never fails the send: the rule-based responder supplies a single reply,
\* exactly one assistant message is persisted and sendMessage returns it
\* with isMultiMessage = false (a send can still fail when the store does)
C27_UpstreamFailureFallsBack ==
    \A r \in Requests :
        UpstreamFailed(r) =>
            /\ flows[r].primary \in RuleBasedReplies
            /\ flows[r].additional = <<>>
            /\ flows[r].pc # "rest_fetch"
            /\ flows[r].pc = "errored" => flows[r].failure = "persistence"
            /\ Cardinality(AssistantPersisted(r)) <= 1
            /\ flows[r].pc \in {"rest_updateChatReply", "done"} =>
                   /\ Cardinality(AssistantPersisted(r)) = 1
                   /\ \A k \in AssistantPersisted(r) :
                         /\ messages[k].content = flows[r].primary
                         /\ ~messages[k].isMultiMessage
                   /\ flows[r].ai.content = flows[r].primary
                   /\ ~flows[r].ai.isMultiMessage
                   /\ flows[r].ai.additionalMessages = <<>>
            /\ flows[r].pc = "done" =>
                   \E k \in 1 .. Len(emitted[r]) :
                       /\ emitted[r][k].type \in {"response", "message"}
                       /\ emitted[r][k].content = flows[r].primary
                       /\ ~emitted[r][k].isMultiMessage

\* a REST send whose upstream attempt failed has returned the rule-based
\* reply
C27_Witness ==
    \E r \in Requests :
        /\ UpstreamFailed(r)
        /\ flows[r].pc = "done"
        /\ flows[r].route = "messages"
        /\ Cardinality(AssistantPersisted(r)) = 1
        /\ emitted[r][Len(emitted[r])].type = "response"
        /\ emitted[r][Len(emitted[r])].content \in RuleBasedReplies


(***************************************************************************)
(* A disconnect during a send (specification DropSpec)                     *)
(***************************************************************************)
DropFlows == {1}

\* send f is suspended at an await of handleMessage: a query of the store,
\* the upstream call, the 500 ms timer or a pacing delay
Suspended(f) ==
    flows[f].pc \in {"accessCheck", "sm_findChat", "sm_createUser",
                     "sm_updateChat", "ai_findHistory", "ai_fetch",
                     "ai_createAssistant", "ai_updateChat", "findUserMessage",
                     "timerPrimary", "segDelay", "segTyping"}

\* socket s has a send in flight
Sending(s) == \E f \in DropFlows : flows[f].sock = s /\ Suspended(f)

\* the socket closes while its send is suspended
disconnectDuringSend(s) ==
    /\ Sending(s)
    /\ clientDisconnect(s)

\* the 'disconnect' event is handled while the send is still suspended
removalDuringSend(s) ==
    /\ Sending(s)
    /\ handleDisconnect(s)

DropNext ==
    \/ \E s \in Sockets, token \in RoomTokens : handleConnection(s, token)
    \/ \E s \in Sockets : handleConnectionFindUser(s, TRUE)
    \/ \E s \in Sockets : handleConnectionUpdateUser(s, TRUE)
    \/ \E s \in Sockets : handleChatUpdate(s, "join", "chatA")
    \/ \E s \in Sockets, dbOk \in BOOLEAN : handleChatUpdateAccess(s, dbOk)
    \/ \E f \in DropFlows, s \in Sockets, chatId \in ChatIds :
          messageEvent(f, s, chatId)
    \/ \E s \in Sockets : disconnectDuringSend(s)
    \/ \E s \in Sockets : removalDuringSend(s)
    \/ \E f \in DropFlows, dbOk \in BOOLEAN : accessCheck(f, dbOk)
    \/ \E f \in DropFlows, dbOk \in BOOLEAN : sendMessageFindChat(f, dbOk)
    \/ \E f \in DropFlows, dbOk \in BOOLEAN : sendMessageCreateUser(f, dbOk)
    \/ \E f \in DropFlows, dbOk \in BOOLEAN : sendMessageUpdateChat(f, dbOk)
    \/ \E f \in DropFlows, dbOk \in BOOLEAN : generateAIResponseHistory(f, dbOk)
    \/ \E f \in DropFlows, out \in UpstreamOutcomes : generateMockAIResponse(f, out)
    \/ \E f \in DropFlows, dbOk \in BOOLEAN : generateAIResponseCreate(f, dbOk)
    \/ \E f \in DropFlows, dbOk \in BOOLEAN : generateAIResponseUpdateChat(f, dbOk)
    \/ \E f \in DropFlows, dbOk \in BOOLEAN : confirmUserMessage(f, dbOk)
    \/ \E f \in DropFlows : emitPrimary(f)
    \/ \E f \in DropFlows : additionalTyping(f)
    \/ \E f \in DropFlows : additionalMessage(f)

DropSpec == Init /\ [][DropNext]_vars

\* the connection of send f was removed from the registry
Removed(f) ==
    /\ flows[f].sock \in Sockets
    /\ conn[flows[f].sock].gone
    /\ flows[f].sock \notin DOMAIN connections

\* the next step of send f when the store answers and the upstream replies
ContinueSend(f) ==
    \/ accessCheck(f, TRUE)
    \/ sendMessageFindChat(f, TRUE)
    \/ sendMessageCreateUser(f, TRUE)
    \/ sendMessageUpdateChat(f, TRUE)
    \/ generateAIResponseHistory(f, TRUE)
    \/ \E out \in UpstreamOutcomes :
          upstreamIsReply(out) /\ generateMockAIResponse(f, out)
    \/ generateAIResponseCreate(f, TRUE)
    \/ generateAIResponseUpdateChat(f, TRUE)
    \/ confirmUserMessage(f, TRUE)
    \/ emitPrimary(f)
    \/ additionalTyping(f)
    \/ additionalMessage(f)

\* a step of a send leaves the registry and the rooms alone
SendStepKeepsRegistry ==
    flows' # flows => connections' = connections /\ chatRooms' = chatRooms

\* a removal leaves every send, the store and the timers as they were
RemovalKeepsSends ==
    (\E s \in Sockets : ~conn[s].gone /\ conn'[s].gone) =>
        UNCHANGED <<flows, messages, chats, emitted, segLog, timerVars>>

\* C28: when a connection is removed from the registry while its send is
\* suspended, the send goes on: the removal changes nothing of the send, its
\* next step stays enabled, a send that completed has stored the user
\* message and the primary reply, and no step of a send re-adds the
\* connection to the registry or adds it to a room
C28_SendSurvivesRemoval ==
    /\ [](\A f \in DropFlows :
             Removed(f) =>
                 /\ Suspended(f) => ENABLED ContinueSend(f)
                 /\ flows[f].pc = "done" =>
                        /\ Cardinality(UserPersisted(f)) = 1
                        /\ Cardinality(AssistantPersisted(f)) = 1
                        /\ \A k \in AssistantPersisted(f) :
                              messages[k].content = flows[f].primary
                 /\ \A r \in DOMAIN chatRooms :
                        flows[f].sock \notin chatRooms[r])
    /\ [][SendStepKeepsRegistry /\ RemovalKeepsSends]_vars

\* a send whose connection was removed while it was suspended has completed
\* with both rows stored, and the connection had joined a room
C28_Witness ==
    \E f \in DropFlows :
        /\ Removed(f)
        /\ flows[f].pc = "done"
        /\ conn[flows[f].sock].hadJoined # {}
        /\ UserPersisted(f) # {}
        /\ AssistantPersisted(f) # {}
        /\ Len(flows[f].ai.additionalMessages) > 0


(***************************************************************************)
(* The frames of a streaming send (specification HttpSpec)                 *)
(***************************************************************************)
\* the streaming sends that have been received
StreamSends == {r \in Requests : flows[r].route = "stream" /\ flows[r].pc # "idle"}

\* the positions of the terminal frames among the frames written for r
TerminalFrames(r) ==
    {k \in 1 .. Len(emitted[r]) : emitted[r][k].type \in {"complete", "error"}}

\* the message frames written for r, in the order written
MessageFrames(r) == SelectSeq(emitted[r], LAMBDA e : e.type = "message")

\* the segments of the reply of r: the primary, then the additional ones
ReplySegments(r) == <<flows[r].ai.content>> \o flows[r].ai.additionalMessages

\* the first frame written for r is the connected frame
StartsWithConnected(r) ==
    /\ emitted[r] # <<>>
    /\ emitted[r][1].type = "connected"

\* the message frames of r are a prefix of the reply's segments in index
\* order (the whole of it once the stream completed), and at most one
\* terminal frame was written, as the last frame: complete after a success,
\* error after a failure
FramesInOrderOneTerminal(r) ==
    LET ms == MessageFrames(r)
    IN  /\ \A k \in 1 .. Len(emitted[r]) :
               emitted[r][k].type \in {"connected", "message", "complete", "error"}
        /\ \A k \in 2 .. Len(emitted[r]) : emitted[r][k].type # "connected"
        /\ ms # <<>> => Len(ms) <= Len(ReplySegments(r))
        /\ \A k \in 1 .. Len(ms) :
               /\ ms[k].content = ReplySegments(r)[k]
               /\ k >= 2 => ms[k].messageIndex = k /\ ms[k].flag = "isAdditional"
               /\ k = 1 => ms[k].flag \in {"isFirst", "isSingle"}
        /\ Cardinality(TerminalFrames(r)) <= 1
        /\ TerminalFrames(r) \subseteq {Len(emitted[r])}
        /\ flows[r].pc \in {"done", "errored"} <=> TerminalFrames(r) # {}
        /\ flows[r].pc = "done" =>
               /\ emitted[r][Len(emitted[r])].type = "complete"
               /\ Len(ms) = Len(ReplySegments(r))
        /\ flows[r].pc = "errored" => emitted[r][Len(emitted[r])].type = "error"

\* C29: every streaming send produces a frame sequence that starts with a
\* connected frame, continues with the message frames of the reply in
\* segment index order and ends with exactly one terminal frame, complete
\* after a success or error after a failure; no frame follows the terminal
\* frame and complete and error never both occur
C29_StreamFrameSequence ==
    \A r \in StreamSends : StartsWithConnected(r) /\ FramesInOrderOneTerminal(r)


(***************************************************************************)
(* The body of POST /chats/:chatId/messages/multi (specification HttpSpec) *)
(***************************************************************************)
\* the sends through sendMultiMessage that returned a body
MultiSendsDone == {r \in Requests : flows[r].route = "multi" /\ flows[r].pc = "done"}

\* the body returned for r
Returned(r) == emitted[r][Len(emitted[r])]

\* C30: for every successful send through POST /chats/:id/messages/multi
\* the returned messages list is the primary reply followed by the
\* additional segments in upstream order, totalMessages is the length of
\* that list, and isMultiMessage is true exactly when the list has more
\* than one element
C30_MultiBodyListsAllSegments ==
    \A r \in MultiSendsDone :
        /\ Len(emitted[r]) = 1
        /\ Returned(r).type = "response"
        /\ Returned(r).messages = <<flows[r].primary>> \o flows[r].additional
        /\ Returned(r).content = flows[r].primary
        /\ ~flows[r].fallback =>
               /\ Len(Returned(r).messages) = Len(flows[r].upstreamSegments)
               /\ Tail(Returned(r).messages) = Tail(flows[r].upstreamSegments)
        /\ \A k \in AssistantPersisted(r) :
               /\ messages[k].content = Returned(r).messages[1]
               /\ messages[k].additionalMessages = Tail(Returned(r).messages)
        /\ Returned(r).totalMessages = Len(Returned(r).messages)
        /\ Returned(r).isMultiMessage <=> Len(Returned(r).messages) > 1

\* a send through sendMultiMessage returned a body listing as many segments
\* as the upstream reply can hold, the last one being the upstream's last
C30_Witness ==
    \E r \in MultiSendsDone :
        /\ Len(Returned(r).messages) = MaxSegments
        /\ Returned(r).isMultiMessage
        /\ Returned(r).totalMessages = MaxSegments
        /\ Returned(r).messages[MaxSegments] = flows[r].upstreamSegments[MaxSegments]


(***************************************************************************)
(* Termination of the send-flows (specification LiveSpec)                  *)
(***************************************************************************)
\* the continuation of send f after an await: the store or the upstream
\* answered or failed, or a timer fired
FlowStep(f) ==
    \/ \E dbOk \in BOOLEAN : accessCheck(f, dbOk)
    \/ \E dbOk \in BOOLEAN : sendMessageFindChat(f, dbOk)
    \/ \E dbOk \in BOOLEAN : sendMessageCreateUser(f, dbOk)
    \/ \E dbOk \in BOOLEAN : sendMessageUpdateChat(f, dbOk)
    \/ \E dbOk \in BOOLEAN : generateAIResponseHistory(f, dbOk)
    \/ \E out \in UpstreamOutcomes : generateMockAIResponse(f, out)
    \/ \E dbOk \in BOOLEAN : generateAIResponseCreate(f, dbOk)
    \/ \E dbOk \in BOOLEAN : generateAIResponseUpdateChat(f, dbOk)
    \/ \E dbOk \in BOOLEAN : confirmUserMessage(f, dbOk)
    \/ emitPrimary(f)
    \/ additionalTyping(f)
    \/ additionalMessage(f)

\* what an upstream attempt ends in: a throw, a non-2xx status, a single
\* reply or a reply of two segments
LiveOutcomes ==
    {out \in UpstreamOutcomes :
        \/ out.kind # "data"
        \/ /\ out.success
           /\ out.response = ""
           /\ Len(out.messages) \in {1, 2}}

\* the sends of a run, each started by a message event of a registered or
\* unregistered socket
LiveNext ==
    \/ \E s \in Sockets : addConnection(s)
    \/ \E f \in Flows, s \in Sockets, agentId \in {"therapist", "bogus"} :
          handleMessage(f, s, "chatA", "Hello", agentId)
    \/ \E f \in Flows, dbOk \in BOOLEAN : accessCheck(f, dbOk)
    \/ \E f \in Flows, dbOk \in BOOLEAN : sendMessageFindChat(f, dbOk)
    \/ \E f \in Flows, dbOk \in BOOLEAN : sendMessageCreateUser(f, dbOk)
    \/ \E f \in Flows, dbOk \in BOOLEAN : sendMessageUpdateChat(f, dbOk)
    \/ \E f \in Flows, dbOk \in BOOLEAN : generateAIResponseHistory(f, dbOk)
    \/ \E f \in Flows, out \in LiveOutcomes : generateMockAIResponse(f, out)
    \/ \E f \in Flows, dbOk \in BOOLEAN : generateAIResponseCreate(f, dbOk)
    \/ \E f \in Flows, dbOk \in BOOLEAN : generateAIResponseUpdateChat(f, dbOk)
    \/ \E f \in Flows, dbOk \in BOOLEAN : confirmUserMessage(f, dbOk)
    \/ \E f \in Flows : emitPrimary(f)
    \/ \E f \in Flows : additionalTyping(f)
    \/ \E f \in Flows : additionalMessage(f)

\* the event loop runs every continuation whose await has settled and every
\* timer that is due
LiveSpec == Init /\ [][LiveNext]_vars /\ \A f \in Flows : WF_vars(FlowStep(f))

\* the states of the send state machine
Validating(pc) == pc = "accessCheck"
PersistingUser(pc) == pc \in {"sm_findChat", "sm_createUser", "sm_updateChat"}
FromAwaitingUpstream(pc) ==
    pc \in {"ai_findHistory", "ai_fetch", "ai_createAssistant", "ai_updateChat",
            "findUserMessage", "timerPrimary", "segDelay", "segTyping"}

\* every send that was started reaches Done, Errored or Rejected
SendsTerminate ==
    \A f \in Flows : (flows[f].pc # "idle") ~> flows[f].pc \in Terminal

\* a send that left Validating does not come back to it, and a terminal
\* state is never left
NoReturnToValidating ==
    \A f \in Flows :
        /\ Validating(flows'[f].pc) =>
               flows[f].pc = "idle" \/ Validating(flows[f].pc)
        /\ flows'[f].pc = "idle" => flows[f].pc = "idle"
        /\ flows[f].pc \in Terminal => flows'[f] = flows[f]

Unregistered(s) == transport[s] = "open" /\ s \notin DOMAIN connections

\* the step emits 'Connection not found' to s
NotFoundStep(s) ==
    \/ /\ lastEmit' # lastEmit
       /\ lastEmit' = <<errorTo(s, "Connection not found", 400)>>
    \/ \E f \in RoomFlows :
          /\ flows[f].pc = "idle"
          /\ flows'[f].sock = s
          /\ emitted'[f] = <<sendError("Connection not found", 400)>>

\* the step starts handling an event of s: a handler of s suspends, or a
\* message event of s is taken up
EventTakenStep(s) ==
    \/ handlers[s].pc = "idle" /\ handlers'[s].pc # "idle"
    \/ \E f \in RoomFlows :
          /\ flows[f].pc = "idle"
          /\ flows'[f].pc # "idle"
          /\ flows'[f].sock = s

\* C32: a message, typing, read_receipt or chat_update event handled for a
\* socket that is not in the registry is rejected with 'Connection not
\* found' and changes no state: no rate-limit counter, room, registry entry
\* or persisted record is touched, and no handler goes on for it
C32_UnregisteredRejected ==
    [][\A s \in Sockets :
          /\ (Unregistered(s) /\ EventTakenStep(s)) =>
                 /\ NotFoundStep(s)
                 /\ \A f \in RoomFlows : flows'[f].sock = s => flows'[f].pc = "rejected"
                 /\ handlers'[s] = handlers[s]
          /\ NotFoundStep(s) =>
                 /\ Unregistered(s)
                 /\ UNCHANGED <<rateLimiter, connections, chatRooms, chats,
                                messages, handlers, conn, transport>>]_vars

\* a typing, read_receipt or chat_update event of a socket was rejected
\* with 'Connection not found' while handleConnection was still looking the
\* user up
C32_Witness ==
    \E s \in Sockets :
        /\ Unregistered(s)
        /\ conn[s].pc = "findUser"
        /\ lastEmit = <<errorTo(s, "Connection not found", 400)>>
        /\ handlers[s].pc = "idle"

\* a message event of an unregistered socket was rejected
C32_WitnessMessage ==
    \E f \in RoomFlows :
        /\ flows[f].pc = "rejected"
        /\ flows[f].sock \in Sockets
        /\ emitted[f] = <<sendError("Connection not found", 400)>>


(***************************************************************************)
(* Disconnects during handleConnection (specification ConnSpec)            *)
(***************************************************************************)
\* C33: in every reachable state each connection id in the registry belongs
\* to a socket whose disconnect has not been handled: for any interleaving of
\* handleConnection and handleDisconnect, the id of a disconnected socket
\* does not remain in the registry
C33_RegistryOnlyLiveSockets ==
    \A s \in DOMAIN connections : ~conn[s].gone


(***************************************************************************)
(* The row behind the confirmed echo (specification Spec)                  *)
(***************************************************************************)
\* C34: the confirmed echo emitted for a send carries the id (and with it
\* the timestamp) of the user message persisted by that same send, for any
\* interleaving of concurrent sends by the same user in the same
\* conversation, including two sends with identical content
C34_EchoIsOwnUserMessage ==
    \A f \in Flows : \A k \in ConfirmedAt(f) :
        \E m \in UserPersisted(f) : emitted[f][k].id = messages[m].id


(***************************************************************************)
(* The message counter of a chat (specification Spec)                      *)
(***************************************************************************)
\* no send for chat c is between its arrival and its terminal state
NoSendInFlight(c) ==
    \A f \in Flows :
        flows[f].chatId = c => flows[f].pc \in Terminal \cup {"idle"}

\* the rows persisted for chat c
RowsOf(c) == {k \in 1 .. Len(messages) : messages[k].chatId = c}

\* C35: whenever no send is in flight for a conversation, its stored
\* messageCount equals the number of messages persisted for it, after any
\* sequence of sends including sends in which a persistence call or the
\* upstream call fails part-way
C35_CountEqualsRows ==
    \A c \in ChatIds :
        NoSendInFlight(c) => chats[c].messageCount = Cardinality(RowsOf(c))


(***************************************************************************)
(* metadata.messageIndex (specification Spec)                              *)
(***************************************************************************)
\* C36: within one conversation metadata.messageIndex is strictly increasing
\* in creation order, so that no two persisted messages carry the same
\* index, for any number and interleaving of sends; the index of the
\* assistant reply of a send is the index of its user message plus one
C36_MessageIndexIncreasing ==
    /\ \A c \in ChatIds : \A j, k \in RowsOf(c) :
           j < k => messages[j].messageIndex < messages[k].messageIndex
    /\ \A f \in Flows : \A u \in UserPersisted(f), a \in AssistantPersisted(f) :
           messages[a].messageIndex = messages[u].messageIndex + 1


(***************************************************************************)
(* What a read receipt changes (specification EventSpec)                   *)
(***************************************************************************)
\* the step in which the updateMany calls of markMessagesAsRead settle for
\* the read_receipt event of socket s
MarkReadStep(s) ==
    /\ handlers[s].pc = "markUpdate"
    /\ handlers'[s].pc = "idle"

\* row k after the step is row k before it, but for the read flag
SameButRead(k) == messages'[k] = [messages[k] EXCEPT !.read = messages'[k].read]

\* C37: markMessagesAsRead(chat, owner, ids) sets the read flag of exactly
\* the messages of that conversation whose ids are listed and leaves
\* everything else unchanged: the other metadata fields of those messages
\* (messageIndex, totalMessages, isMultiMessage, additionalMessages), every
\* message not listed and every message of another conversation
C37_MarkReadChangesOnlyReadFlag ==
    [][\A s \in Sockets :
          MarkReadStep(s) =>
              /\ Len(messages') = Len(messages)
              /\ \A k \in 1 .. Len(messages) :
                    /\ SameButRead(k)
                    /\ messages'[k].read # messages[k].read =>
                           /\ messages[k].id \in handlers[s].messageIds
                           /\ messages[k].chatId = handlers[s].chatId
                           /\ messages'[k].read]_vars


(***************************************************************************)
(* The new user text in the upstream context (specification HistorySpec)   *)
(***************************************************************************)
\* the row sendMessage has just created: the last row of the store
JustPersisted == messages[Len(messages)]

\* the rows of the history of call f that pass the filter of empty content
KeptRows(f) ==
    SelectSeq(flows[f].conversationHistory,
              LAMBDA m : Truthy(m.content) /\ trim(m.content) # "")

\* C38: the message list built for the upstream call contains the new user
\* text exactly once, as its last entry: the user message just persisted by
\* sendMessage does not also appear in the history part of the list,
\* whatever the number of messages already in the conversation
C38_NewTextExactlyOnce ==
    \A f \in HistoryCalls :
        flows[f].pc \in {"h_limit", "h_request"} =>
            LET ms == flows[f].messages
            IN  /\ ms # <<>>
                /\ ms[Len(ms)] = [role |-> "user", content |-> flows[f].content]
                /\ Len(ms) = Len(KeptRows(f)) + 1
                /\ \A k \in 1 .. Len(KeptRows(f)) :
                      KeptRows(f)[k].id # JustPersisted.id


(***************************************************************************)
(* ChatService.pollNewMessages (specification PollSpec)                    *)
(***************************************************************************)
\* the timestamps of the rows: milliseconds, so rows created within the
\* same millisecond carry the same one
Stamps == 1 .. MaxStamp

\* the stores polled: up to MaxPolled rows in creation order, each of chatA
\* or chatB, with timestamps that never decrease along creation
PollStores ==
    UNION {{[k \in 1 .. n |->
                [id |-> <<"msg", k>>, chatId |-> cs[k], userId |-> 1,
                 agentId |-> "therapist", content |-> "text",
                 role |-> IF k % 2 = 1 THEN "user" ELSE "assistant",
                 timestamp |-> ts[k]]] :
             cs \in [1 .. n -> RoomChatIds],
             ts \in {t \in [1 .. n -> Stamps] :
                        \A j, k \in 1 .. n : j < k => t[j] <= t[k]}} :
           n \in 1 .. MaxPolled}

\* the lastMessageId of the query string: absent, the id of a row, or an id
\* no row has
LastMessageIds(ms) == {NoId, <<"msg", 0>>} \cup {ms[k].id : k \in 1 .. Len(ms)}

\* the locals of one call of pollNewMessages
IdlePoll ==
    [pc |-> "p_findChat", chatId |-> "", userId |-> 0, lastMessageId |-> NoId,
     filtered |-> FALSE, after |-> 0, result |-> <<>>]

PollCalls == {1}

pollFrame ==
    <<now, rateLimiter, rlHistory, connections, chats, messages, emitted,
      segLog, timerVars, transport, roomVars>>

\* pollNewMessages: prisma.chat.findFirst returns or throws
pollFindChat(f, dbOk) ==
    LET p == flows[f]
    IN  /\ p.pc = "p_findChat"
        /\ flows' = [flows EXCEPT
                        ![f].pc = IF ~dbOk THEN "p_failed"
                                  ELSE IF ~chatFound(chats, p.chatId, p.userId)
                                  THEN "p_notFound"
                                  ELSE IF p.lastMessageId # NoId THEN "p_findUnique"
                                  ELSE "p_findMany"]
        /\ UNCHANGED pollFrame

\* pollNewMessages: prisma.message.findUnique({ where: { id: lastMessageId } })
\* returns; when the row exists the query gets timestamp > its timestamp
pollFindUnique(f, dbOk) ==
    LET p == flows[f]
        found == {k \in 1 .. Len(messages) : messages[k].id = p.lastMessageId}
    IN  /\ p.pc = "p_findUnique"
        /\ flows' = [flows EXCEPT
                        ![f] = IF ~dbOk THEN [p EXCEPT !.pc = "p_failed"]
                               ELSE IF found = {} THEN [p EXCEPT !.pc = "p_findMany"]
                               ELSE [p EXCEPT
                                        !.pc = "p_findMany",
                                        !.filtered = TRUE,
                                        !.after = messages[CHOOSE k \in found : TRUE]
                                                      .timestamp]]
        /\ UNCHANGED pollFrame

\* the rows findMany({ where: { chatId, timestamp: { gt } } }) selects
pollMatches(ms, chatId, filtered, after) ==
    {k \in 1 .. Len(ms) :
        /\ ms[k].chatId = chatId
        /\ filtered => ms[k].timestamp > after}

\* orderBy: { timestamp: 'asc' }: the selected rows by ascending timestamp;
\* rows of equal timestamp come in an order the store chooses
pollOrders(ms, S) ==
    {q \in [1 .. Cardinality(S) -> S] :
        /\ \A i, j \in 1 .. Cardinality(S) : i # j => q[i] # q[j]
        /\ \A i, j \in 1 .. Cardinality(S) :
              i < j => ms[q[i]].timestamp <= ms[q[j]].timestamp}

\* pollNewMessages: prisma.message.findMany returns; the rows are mapped and
\* returned
pollFindMany(f, dbOk) ==
    LET p == flows[f]
        S == pollMatches(messages, p.chatId, p.filtered, p.after)
    IN  /\ p.pc = "p_findMany"
        /\ IF ~dbOk
           THEN flows' = [flows EXCEPT ![f].pc = "p_failed"]
           ELSE \E q \in pollOrders(messages, S) :
                    flows' = [flows EXCEPT
                                 ![f].pc = "p_done",
                                 ![f].result = [i \in 1 .. Cardinality(S) |->
                                                   messages[q[i]].id]]
        /\ UNCHANGED pollFrame

PollInit ==
    /\ now = 0
    /\ rateLimiter = <<>>
    /\ rlLast = NoCall
    /\ rlWindow = <<>>
    /\ rlRecent = <<>>
    /\ connections = <<>>
    /\ chats = RoomChatsInit
    /\ messages \in PollStores
    /\ \E chatId \in RoomChatIds, userId \in UserStore,
          lastMessageId \in LastMessageIds(messages) :
          flows = [f \in PollCalls |->
                      [IdlePoll EXCEPT !.chatId = chatId, !.userId = userId,
                                       !.lastMessageId = lastMessageId]]
    /\ emitted = [f \in PollCalls |-> <<>>]
    /\ segLog = [s \in Sockets |-> <<>>]
    /\ timers500 = <<>>
    /\ timerCount = 0
    /\ transport = [s \in Sockets |-> "new"]
    /\ conn = [s \in Sockets |-> IdleConn]
    /\ chatRooms = <<>>
    /\ handlers = [s \in Sockets |-> IdleHandler]
    /\ lastEmit = <<>>

PollNext ==
    \/ \E f \in PollCalls, dbOk \in BOOLEAN : pollFindChat(f, dbOk)
    \/ \E f \in PollCalls, dbOk \in BOOLEAN : pollFindUnique(f, dbOk)
    \/ \E f \in PollCalls, dbOk \in BOOLEAN : pollFindMany(f, dbOk)

PollSpec == PollInit /\ [][PollNext]_vars

\* the ids of the rows of chat c created after row m, in creation order
CreatedAfter(c, m) ==
    LET later == SelectSeq(messages,
                           LAMBDA r : r.chatId = c /\ r.id[2] > m[2])
    IN  [i \in 1 .. Len(later) |-> later[i].id]

\* C39: for any message m of a conversation, pollNewMessages(chat, owner,
\* m.id) returns exactly the messages of that conversation created after m,
\* in creation order, including a message whose timestamp equals m's
C39_PollReturnsAllLater ==
    \A f \in PollCalls :
        LET p == flows[f]
        IN  (/\ p.pc = "p_done"
             /\ \E k \in 1 .. Len(messages) :
                   messages[k].id = p.lastMessageId /\ messages[k].chatId = p.chatId)
            => p.result = CreatedAfter(p.chatId, p.lastMessageId)


(***************************************************************************)
(* Room members are connections of the owner (specification RoomSpec)      *)
(***************************************************************************)
\* the user socket s is bound to: the user of its registry entry
BoundUser(s) == connections[s].userId

\* the step adds socket s to the room of chat r
JoinedStep(s, r) ==
    /\ r \notin DOMAIN chatRooms \/ s \notin chatRooms[r]
    /\ r \in DOMAIN chatRooms'
    /\ s \in chatRooms'[r]

\* C40: in every reachable state no connection bound to a user other than
\* a conversation's owner is a member of that conversation's room, and a
\* connection is added to a room only by the step of its chat_update 'join'
\* in which the ownership lookup for its bound user succeeded, for any
\* interleaving of join, leave, connect and disconnect events
C40_MembersAreOwners ==
    /\ [](\A r \in DOMAIN chatRooms : \A s \in chatRooms[r] :
             /\ s \in DOMAIN connections
             /\ r \in DOMAIN chats
             /\ chats[r].userId = BoundUser(s))
    /\ [][\A s \in Sockets, r \in RoomChatIds :
             JoinedStep(s, r) =>
                 /\ handlers[s].pc = "access"
                 /\ handlers[s].kind = "chat_update"
                 /\ handlers[s].action = "join"
                 /\ handlers[s].chatId = r
                 /\ s \in DOMAIN connections
                 /\ handlers[s].userId = BoundUser(s)
                 /\ chatFound(chats, r, BoundUser(s))]_vars

\* the owner's connection is in the room of chatA, and the join of a
\* connection of another user has just been refused
C40_Witness ==
    \E s, t \in DOMAIN connections :
        /\ BoundUser(s) = 1
        /\ BoundUser(t) = 2
        /\ "chatA" \in DOMAIN chatRooms
        /\ s \in chatRooms["chatA"]
        /\ lastEmit = <<errorTo(t, "Access denied to chat", 400)>>
        /\ connections[t].joinedChats = {}

====
